---- MODULE Spec2Model ----
(***************************************************************************)
(* The step pipeline of the hammer Cadence plugins (Innovus, Genus,        *)
(* Joules, Voltus, Xcelium): the step lists, the pre/between/post hooks, the step   *)
(* actions that append TCL commands to the output buffer, and the action   *)
(* that flushes the buffer to a script and launches the wrapped tool.      *)
(***************************************************************************)
EXTENDS Integers, Sequences, FiniteSets, TLC

\* Bounds of the environment the steps read.
MaxDontUse == 1
MaxIlms == 1
MaxClockPorts == 1
MaxWaveforms == 1
MaxReports == 2
MaxSaifs == 1
MaxErrorAt == 2
MaxAppends == 4
MaxRuns == 3
MaxCustomReports == 1
MaxStrapLayers == 3

Tools == {"Innovus", "Genus", "Joules", "Voltus"}
HierarchicalModes == {"Flat", "Leaf", "Hierarchical", "Top"}
FlowLevels == {"RTL", "GateLevel", "Other"}
ExitStatuses == {"ok", "fail"}
RunDir == "run_dir"

VARIABLES
    tool,               \* which plugin class the run is of
    hierarchical_mode,  \* self.hierarchical_mode
    start_at,           \* index in Steps of the step the run starts at
    env,                \* the settings and inputs the step actions read
    pc,                 \* position of the driver
    cur,                \* index of the current step
    output,             \* self.output, the buffered TCL commands
    origin,             \* history: who appended each entry of output
    step_transitions,   \* Innovus._step_transitions
    attrs,              \* the attr_setter store: names of the flags set to True
    invoked,            \* history: names of the step actions invoked, in order
    succeeded,          \* history: names of the step actions that returned True
    final_entries,      \* history: `succeeded` at each entry of the flush-and-run action
    exec_calls,         \* history: the run_executable calls, in order
    files,              \* script files written: name -> contents
    links,              \* symlinks in run_dir: set of [dst, src]
    warnings,           \* messages given to logger.warning
    events,             \* history: symlink, script-write, run_executable and append events, in order
    logging,            \* HammerVLSILogging.enable_colour and .enable_tag
    outputs,            \* the output fields fill_outputs assigns
    straps,             \* the last call of specify_all_power_straps_by_tracks
    result              \* what the run returned: "none", "success", "failure"

vars == <<tool, hierarchical_mode, start_at, env, pc, cur, output, origin,
          step_transitions, attrs, invoked, succeeded, final_entries,
          exec_calls, files, links, warnings, events, logging, outputs, straps, result>>

-----------------------------------------------------------------------------
\* Helpers on sequences and strings.

RECURSIVE JoinWith(_, _)
\* sep.join(lines)
JoinWith(sep, lines) ==
    IF lines = <<>> THEN ""
    ELSE IF Len(lines) = 1 THEN lines[1]
    ELSE lines[1] \o sep \o JoinWith(sep, Tail(lines))

\* [f(i) for i in 1..n]
Repeat(n, F(_)) == [i \in 1..n |-> F(i)]

\* faulty variant: a command already in the buffer is not added again
append_dedup(out, cmd) ==
    IF \E i \in 1..Len(out) : out[i] = cmd THEN out ELSE Append(out, cmd)

\* faulty variant: the command is put at the front of the buffer
append_front(out, cmd) == <<cmd>> \o out

\* self.append(cmd): tcl_append(cmd, self.output)
append(out, cmd) == Append(out, cmd)

\* self.verbose_append(cmd): verbose_tcl_append(cmd, self.output)
verbose_append(out, cmd) == append(out, cmd)

RECURSIVE AppendAll(_, _)
\* the appends of one hook or step action, in call order
AppendAll(out, cmds) ==
    IF cmds = <<>> THEN out ELSE AppendAll(append(out, Head(cmds)), Tail(cmds))

IndexOf(seq, x) == CHOOSE i \in 1..Len(seq) : seq[i] = x

Range(seq) == {seq[i] : i \in 1..Len(seq)}

-----------------------------------------------------------------------------
\* The step lists.

InnovusStepsDup(mode) ==
    <<"init_design", "floorplan_design", "place_tap_cells", "power_straps",
      "place_opt_design", "clock_tree", "route_design", "route_design",
      "opt_design">>
    \o (IF mode = "Top" THEN <<"assemble_design">> ELSE <<>>)
    \o <<"write_design">>
    \o (IF mode \in {"Leaf", "Hierarchical"} THEN <<"write_ilm">> ELSE <<>>)

\* faulty variant: the top of the hierarchy writes an ILM as well
InnovusStepsTopIlm(mode) ==
    <<"init_design", "floorplan_design", "place_tap_cells", "power_straps",
      "place_opt_design", "clock_tree", "route_design", "opt_design">>
    \o (IF mode = "Top" THEN <<"assemble_design">> ELSE <<>>)
    \o <<"write_design">>
    \o (IF mode \in {"Leaf", "Hierarchical", "Top"} THEN <<"write_ilm">> ELSE <<>>)

\* the else branch of Innovus.steps: a mode that is none of the four raises
\* NotImplementedError
StepsRaises(t, mode) == t = "Innovus" /\ mode \notin HierarchicalModes

InnovusSteps(mode) ==
    <<"init_design", "floorplan_design", "place_tap_cells", "power_straps",
      "place_opt_design", "clock_tree", "route_design", "opt_design">>
    \o (IF mode = "Top" THEN <<"assemble_design">> ELSE <<>>)
    \o <<"write_design">>
    \o (IF mode \in {"Leaf", "Hierarchical"} THEN <<"write_ilm">> ELSE <<>>)

GenusSteps ==
    <<"init_environment", "syn_generic", "syn_map", "write_regs",
      "generate_reports", "write_outputs">>

\* faulty variant: the tool is run before the design is read
JoulesStepsRunEarly == <<"init_technology", "run_joules", "init_design">>

JoulesSteps == <<"init_technology", "init_design", "run_joules">>

VoltusSteps ==
    <<"init_technology", "init_design", "static_power", "active_power",
      "static_rail", "active_rail", "run_voltus">>

XceliumSteps == <<"compile_xrun", "elaborate_xrun", "sim_xrun">>

StepsOf(t, mode) ==
    CASE t = "Innovus" -> InnovusSteps(mode)
      [] t = "Genus" -> GenusSteps
      [] t = "Joules" -> JoulesSteps
      [] t = "Voltus" -> VoltusSteps
      [] t = "Xcelium" -> XceliumSteps

Steps == StepsOf(tool, hierarchical_mode)

\* HierarchicalMode.is_nonleaf_hierarchical, as the plugins use it
IsNonleafHierarchical(mode) == mode \in {"Hierarchical", "Top"}

-----------------------------------------------------------------------------
\* What a step action or hook hands back to the driver: the commands it
\* appended to the output buffer, whether it returned True, whether it raised,
\* the run_executable calls it made, the script file it wrote, whether it is
\* the flush-and-run action, and the flags it set.

Ret(cmds, ok) ==
    [cmds |-> cmds, ok |-> ok, raised |-> FALSE, execs |-> <<>>, script |-> <<>>,
     final |-> FALSE, sets |-> {}]

Exec(args, status) == [args |-> args, status |-> status]

Event(kind, name) == [kind |-> kind, name |-> name]

\* the file and process events of a step action, in the order of its code:
\* the script is written before the tool is launched on it
EventsOf(r) ==
    [i \in 1..Len(r.script) |-> Event("write", r.script[i].name)]
    \o [i \in 1..Len(r.execs) |-> Event("run_executable", r.execs[i].args[1])]

-----------------------------------------------------------------------------
\* CadenceTool helpers.

\* generate_power_spec_commands: [] for an invalid type or mode and for mode
\* "empty", else the two commands that load the power specification
generate_power_spec_commands(e) ==
    IF e.power_spec
    THEN <<"read_power_intent -cpf " \o RunDir \o "/power_spec.cpf", "commit_power_intent">>
    ELSE <<>>

\* generate_dont_use_commands: one TCL block per cell of the don't-use list
generate_dont_use_commands(e) ==
    Repeat(e.dont_use, LAMBDA i : "set_dont_use [get_db lib_cells */cell" \o ToString(i) \o "]")

-----------------------------------------------------------------------------
\* Innovus step actions.

Innovus_init_design_head ==
    <<"set_db design_process_node <node>",
      "set_multi_cpu_usage -local_cpu <max_threads>",
      "read_physical -lef { <lef_files> }",
      "read_mmmc " \o RunDir \o "/mmmc.tcl">>

\* faulty variant: the input-file check is ignored and the step goes on
Innovus_init_design_unchecked(e, mode) ==
    Ret(Innovus_init_design_head
        \o <<"read_netlist { <input_files> } -top <top>">>
        \o <<"init_design">>
        \o generate_power_spec_commands(e)
        \o <<"set_db design_flow_effort <effort>">>
        \o generate_dont_use_commands(e), TRUE)

\* faulty variant: the failing path drops what the step had appended
Innovus_init_design_dropping(e, mode) ==
    IF ~e.input_files_ok
    THEN Ret(<<>>, FALSE)
    ELSE Innovus_init_design_unchecked(e, mode)

Innovus_init_design(e, mode) ==
    IF ~e.input_files_ok
    THEN Ret(Innovus_init_design_head, FALSE)
    ELSE Ret(Innovus_init_design_head
             \o <<"read_netlist { <input_files> } -top <top>">>
             \o (IF IsNonleafHierarchical(mode)
                 THEN Repeat(e.input_ilms,
                             LAMBDA i : "read_ilm -cell ilm" \o ToString(i)
                                        \o " -directory ilm_dir" \o ToString(i))
                 ELSE <<>>)
             \o <<"init_design">>
             \o generate_power_spec_commands(e)
             \o <<"set_db design_flow_effort <effort>">>
             \o generate_dont_use_commands(e), TRUE)

Innovus_floorplan_design ==
    Ret(<<"source -echo -verbose " \o RunDir \o "/floorplan.tcl">>, TRUE)

Innovus_place_tap_cells == Ret(<<>>, TRUE)

Innovus_power_straps ==
    Ret(<<"source -echo -verbose " \o RunDir \o "/power_straps.tcl">>, TRUE)

Innovus_place_opt_design == Ret(<<"place_opt_design">>, TRUE)

Innovus_clock_tree(e) ==
    IF e.clock_ports > 0
    THEN Ret(<<"create_clock_tree_spec",
               "ccopt_design -hold -report_dir hammer_cts_debug -report_prefix hammer_cts">>, TRUE)
    ELSE Ret(<<>>, TRUE)

Innovus_route_design == Ret(<<"route_design">>, TRUE)

Innovus_opt_design == Ret(<<"opt_design -post_route -setup -hold">>, TRUE)

Innovus_assemble_design == Ret(<<>>, TRUE)

Innovus_write_netlist ==
    <<"write_netlist " \o RunDir \o "/<top>.lvs.v -top_module_first -top_module <top> -exclude_leaf_cells -phys -flat">>

Innovus_write_gds(e) ==
    <<"write_stream -mode ALL -unit 1000 <map_file> "
      \o (IF e.gds_merge THEN "-uniquify_cell_names -merge { <gds_files> }" ELSE "-output_macros")
      \o " " \o RunDir \o "/<top>.gds">>

Innovus_write_design(e, st) ==
    [Ret(<<"write_db <top>_FINAL -def -verilog">>
         \o Innovus_write_netlist \o Innovus_write_gds(e), TRUE)
     EXCEPT !.execs =
        <<Exec(<<"chmod", "+x", RunDir \o "/generated-scripts/open_chip">>, st)>>]

Innovus_write_ilm ==
    [Ret(<<"time_design -post_route",
           "time_design -post_route -hold",
           "write_lef_abstract -5.8 <top>ILM.lef",
           "write_ilm -model_type all -to_dir " \o RunDir \o "/<top>ILMDir -type_flex_ilm ilm">>,
         TRUE)
     EXCEPT !.sets = {"_ran_write_ilm"}]

InnovusStep(n, e, mode, st) ==
    CASE n = "init_design" -> Innovus_init_design(e, mode)
      [] n = "floorplan_design" -> Innovus_floorplan_design
      [] n = "place_tap_cells" -> Innovus_place_tap_cells
      [] n = "power_straps" -> Innovus_power_straps
      [] n = "place_opt_design" -> Innovus_place_opt_design
      [] n = "clock_tree" -> Innovus_clock_tree(e)
      [] n = "route_design" -> Innovus_route_design
      [] n = "opt_design" -> Innovus_opt_design
      [] n = "assemble_design" -> Innovus_assemble_design
      [] n = "write_design" -> Innovus_write_design(e, st)
      [] n = "write_ilm" -> Innovus_write_ilm


\* The flush-and-run action of a plugin: append the quit command, write the
\* whole buffer to the script file, launch the tool on it, return True.
\* run_executable's outcome `st` is not looked at.
\* faulty variant: the script is written before the quit command is appended
FlushAndRunNoQuit(out, quit, script, args, launch, st) ==
    [Ret(<<quit>>, TRUE)
     EXCEPT !.script = <<[name |-> script, text |-> JoinWith("\n", out)]>>,
            !.execs = IF launch THEN <<Exec(args, st)>> ELSE <<>>,
            !.final = TRUE]

FlushAndRun(out, quit, script, args, launch, st) ==
    [Ret(<<quit>>, TRUE)
     EXCEPT !.script = <<[name |-> script, text |-> JoinWith("\n", verbose_append(out, quit))]>>,
            !.execs = IF launch THEN <<Exec(args, st)>> ELSE <<>>,
            !.final = TRUE]

run_innovus(out, st) ==
    FlushAndRun(out, "exit", RunDir \o "/par.tcl",
                <<"<innovus_bin>", "-nowin", "-common_ui", "-files", RunDir \o "/par.tcl">>,
                TRUE, st)

-----------------------------------------------------------------------------
\* Genus step actions.

Hashes == "##############################################################################"

Genus_init_environment_head(e, mode) ==
    <<"set_db hdl_error_on_blackbox true",
      "set_db max_cpus_per_server <max_threads>">>
    \o (IF e.clock_gating_auto
        THEN <<"set_db lp_clock_gating_infer_enable  true",
               "set_db lp_clock_gating_prefix  {CLKGATE}",
               "set_db lp_insert_clock_gating  true",
               "set_db lp_clock_gating_hierarchical true",
               "set_db lp_insert_clock_gating_incremental true",
               "set_db lp_clock_gating_register_aware true">>
        ELSE <<>>)
    \o <<"read_mmmc ./mmmc.tcl">>
    \o (IF IsNonleafHierarchical(mode)
        THEN Repeat(e.input_ilms,
                    LAMBDA i : "read_ilm -basename ilm_data" \o ToString(i) \o "/ilm"
                               \o ToString(i) \o "_postRoute -module_name ilm" \o ToString(i))
        ELSE <<>>)
    \o <<"read_physical -lef <lef_files>">>

Genus_init_environment(e, mode) ==
    IF ~e.input_files_ok
    THEN Ret(Genus_init_environment_head(e, mode), FALSE)
    ELSE Ret(Genus_init_environment_head(e, mode)
             \o <<IF e.rtl_filelist THEN "read_hdl -f <rtl_filelist>"
                                    ELSE "read_hdl <input_files>">>
             \o <<"elaborate <top>">>
             \o (IF IsNonleafHierarchical(mode)
                 THEN Repeat(e.input_ilms,
                             LAMBDA i : "set_db module:<top>/ilm" \o ToString(i) \o " .preserve true")
                 ELSE <<>>)
             \o <<"init_design -top <top>",
                  "set_db root: .auto_ungroup none",
                  "set_units -capacitance 1.0pF",
                  "set_load_unit -picofarads 1",
                  "set_units -time 1.0<time_unit>">>
             \o generate_dont_use_commands(e), TRUE)

Genus_syn_generic == Ret(<<"syn_generic">>, TRUE)

Genus_syn_map == Ret(<<"syn_map">>, TRUE)

Genus_write_regs == Ret(<<"<write_regs tcl> set write_regs_ir ./find_regs.json">>, TRUE)

Genus_generate_reports(e) ==
    Ret(<<"write_reports -directory reports -tag final">>
        \o (IF e.setup_corner
            THEN <<"report_timing -views <c>.setup_view -path_type summary -split_delay -output_format text -file reports/final-setup-summary.rpt",
                   "report_timing -views <c>.setup_view -lint -output_format text -file reports/final-setup-lint.rpt">>
                 \o (IF e.is_physical
                     THEN <<"report_timing -views <c>.setup_view -path_type full_clock -split_delay -physical -output_format text -file reports/final-setup-physical.rpt">>
                     ELSE <<>>)
                 \o <<"report_timing -views <c>.setup_view -path_type full_clock -split_delay -nets -nworst 10 -lint -fields <fields> -output_format text -file reports/final-setup.rpt">>
            ELSE <<>>), TRUE)

Genus_write_outputs(e, mode) ==
    [Ret(<<"write_hdl > /<top>.mapped.v",
           "write_script > <top>.mapped.scr">>
         \o (IF e.setup_corner
             THEN <<"write_sdc -view <c>.setup_view > <top>.mapped.sdc">>
             ELSE <<>>)
         \o <<"write_design -innovus " \o (IF mode # "Leaf" THEN "-hierarchical" ELSE "")
              \o " -gzip_files <top>",
              "write_sdf > <top>.mapped.sdf">>, TRUE)
     EXCEPT !.sets = {"_ran_write_outputs"}]

GenusStep(n, e, mode) ==
    CASE n = "init_environment" -> Genus_init_environment(e, mode)
      [] n = "syn_generic" -> Genus_syn_generic
      [] n = "syn_map" -> Genus_syn_map
      [] n = "write_regs" -> Genus_write_regs
      [] n = "generate_reports" -> Genus_generate_reports(e)
      [] n = "write_outputs" -> Genus_write_outputs(e, mode)

\* faulty variant: generate_only is not looked at
run_genus_always(out, e, st) ==
    FlushAndRun(out, "quit", RunDir \o "/syn.tcl",
                <<"<genus_bin>", "-abort_on_error", "-f", RunDir \o "/syn.tcl", "-no_gui">>,
                TRUE, st)

run_genus(out, e, st) ==
    FlushAndRun(out, "quit", RunDir \o "/syn.tcl",
                <<"<genus_bin>", "-abort_on_error", "-f", RunDir \o "/syn.tcl", "-no_gui">>,
                ~e.generate_only, st)


-----------------------------------------------------------------------------
\* Joules step actions.

\* init_technology: read_libs for the first Extra corner, else for the first
\* Setup corner; the Setup branch formats {SETUP_LIBS} with the keyword
\* SETUP_LIB and raises KeyError
Joules_init_technology(e) ==
    CASE e.corner = "Extra" -> Ret(<<"read_libs <extra_libs> -infer_memory_cells">>, TRUE)
      [] e.corner = "Setup" -> [Ret(<<>>, FALSE) EXCEPT !.raised = TRUE]
      [] OTHER -> Ret(<<>>, TRUE)

Joules_stim_alias(i) == "wave" \o ToString(i) \o ".vcd_" \o ToString(i - 1)

Joules_report_stimulus(r, i) ==
    "read_stimulus -file <path>/wave" \o ToString(i) \o ".vcd -dut_instance <tb>/<dut> <start> <end> "
    \o (IF r.toggle_signal THEN "-cycles <num> <signal>" ELSE "")
    \o " -alias " \o Joules_stim_alias(i) \o " -append"

Joules_report_power(i) ==
    "report_power -frames [get_sdb_frames " \o Joules_stim_alias(i)
    \o "] -collate none -cols total -by_hierarchy <module> <levels> -indent_inst -unit mW -out "
    \o Joules_stim_alias(i) \o ".report"

\* the reports before the first one that names a toggle signal without a
\* number of toggles; all of them when there is none
Joules_reports_read(reports) ==
    LET bad == {i \in 1..Len(reports) :
                    reports[i].toggle_signal /\ ~reports[i].num_toggles}
    IN  IF bad = {} THEN Len(reports)
        ELSE (CHOOSE i \in bad : \A j \in bad : i <= j) - 1

Joules_init_design_head(e) ==
    (IF e.level = "RTL" THEN <<"read_hdl -sv <input_files>">> ELSE <<>>)
    \o <<"read_power_intent -<tpe> <spec> -module <top>",
         "set_db leakage_power_effort low",
         "set_db lp_insert_clock_gating true">>
    \o (CASE e.level = "RTL" -> <<"elaborate <top>">>
          [] e.level = "GateLevel" -> <<"read_netlist <input_files>", "read_sdc <sdc>">>
          [] OTHER -> <<>>)

Joules_waveform_stimulus(i) ==
    "read_stimulus -file wave" \o ToString(i) \o ".vcd -dut_instance <tb>/<dut> -alias wave"
    \o ToString(i) \o ".vcd -append"

Joules_saif_stimulus(i) ==
    "read_stimulus saif" \o ToString(i)
    \o ".saif -dut_instance <tb>/<dut> -format saif -alias saif"
    \o ToString(i) \o ".saif -append"

Joules_waveforms_report ==
    "report_power -stims <waveforms> -indent_inst -unit mW -append -out waveforms.report"

Joules_saif_report(i) ==
    "report_power -stims saif" \o ToString(i) \o ".saif -indent_inst -unit mW -out saif"
    \o ToString(i) \o ".saif.report"

\* power.inputs.custom_reports: commands of the user, appended as they are
Joules_custom_report(i) == "report_power <custom_report " \o ToString(i) \o ">"

\* faulty variant: the SAIF stimuli are read after the power is computed
Joules_init_design_saif_late(e) ==
    LET head == Joules_init_design_head(e)
        waves == Repeat(e.waveforms, Joules_waveform_stimulus)
        nread == Joules_reports_read(e.reports)
        stims == Repeat(nread, LAMBDA i : Joules_report_stimulus(e.reports[i], i))
    IN  IF e.level \notin {"RTL", "GateLevel"}
        THEN Ret(head, FALSE)
        ELSE IF nread < Len(e.reports)
        THEN Ret(head \o waves \o stims, FALSE)
        ELSE Ret(head \o waves \o stims
                 \o <<"compute_power -mode time_based", Joules_waveforms_report>>
                 \o Repeat(e.saifs, Joules_saif_stimulus)
                 \o Repeat(Len(e.reports), Joules_report_power)
                 \o Repeat(e.saifs, Joules_saif_report)
                 \o Repeat(e.custom_reports, Joules_custom_report),
                 TRUE)

Joules_init_design(e) ==
    LET head == Joules_init_design_head(e)
        waves == Repeat(e.waveforms, Joules_waveform_stimulus)
        nread == Joules_reports_read(e.reports)
        stims == Repeat(nread, LAMBDA i : Joules_report_stimulus(e.reports[i], i))
    IN  IF e.level \notin {"RTL", "GateLevel"}
        THEN Ret(head, FALSE)
        ELSE IF nread < Len(e.reports)
        THEN Ret(head \o waves \o stims, FALSE)
        ELSE Ret(head \o waves \o stims
                 \o Repeat(e.saifs, Joules_saif_stimulus)
                 \o (IF e.level = "RTL"
                     THEN <<"read_sdc <sdc_files>", "set_db auto_super_thread 1",
                            "syn_power -effort low">>
                     ELSE <<>>)
                 \o <<"compute_power -mode time_based", Joules_waveforms_report>>
                 \o Repeat(Len(e.reports), Joules_report_power)
                 \o Repeat(e.saifs, Joules_saif_report)
                 \o Repeat(e.custom_reports, Joules_custom_report),
                 TRUE)

run_joules(out, st) ==
    FlushAndRun(out, "exit", RunDir \o "/joules.tcl",
                <<"<joules_bin>", "-files", RunDir \o "/joules.tcl", "-common_ui">>,
                TRUE, st)

JoulesStep(n, e, out, st) ==
    CASE n = "init_technology" -> Joules_init_technology(e)
      [] n = "init_design" -> Joules_init_design(e)
      [] n = "run_joules" -> run_joules(out, st)

-----------------------------------------------------------------------------
\* Voltus step actions, in non-MMMC mode (get_mmmc_corners() is empty).

Voltus_init_technology_stdcell(e) ==
    IF e.pgv_libs
    THEN [Ret(<<>>, TRUE) EXCEPT !.sets = {"_ran_stdcell_pgv"}]
    ELSE IF ~e.pg_dirs_exist
    THEN [Ret(<<"read_physical -lef { <tech_lib_lefs> }">>, TRUE)
          EXCEPT !.sets = {"_ran_stdcell_pgv"}]
    ELSE [Ret(<<>>, TRUE) EXCEPT !.sets = {"_ran_stdcell_pgv"}]

Voltus_init_technology(e) ==
    LET std == Voltus_init_technology_stdcell(e)
    IN  IF (~e.macro_lib_dir_exists \/ e.extra_lib_lefs_changed) /\ e.macro_pgv
        THEN IF ~e.extra_lib_sp \/ ~e.extra_lib_gds
             THEN std
             ELSE [std EXCEPT !.cmds = @ \o <<"read_physical -lef { <tech_lef> <extra_lib_lefs> }">>,
                              !.sets = @ \cup {"_ran_macro_pgv"}]
        ELSE IF e.macro_lib_dir_exists /\ ~e.extra_lib_lefs_changed
        THEN [std EXCEPT !.sets = @ \cup {"_ran_macro_pgv"}]
        ELSE std

Voltus_init_design(e) ==
    IF ~e.par_db_exists
    THEN [Ret(<<"set_multi_cpu_usage -local_cpu <max_threads>">>, FALSE)
          EXCEPT !.raised = TRUE]
    ELSE Ret(<<"set_multi_cpu_usage -local_cpu <max_threads>",
               "read_db <innovus_db>",
               "set_power_pads -net <VDD> -format defpin",
               "set_power_pads -net <VSS> -format defpin",
               "set_analysis_view -setup { my_view } -hold { my_view }",
               "read_spef <spef>">>, TRUE)

Voltus_static_power ==
    Ret(<<"set_db power_method static",
          "set_db power_write_static_currents true",
          "set_db power_write_db true",
          "report_power -out_dir staticPowerReports">>, TRUE)

Voltus_active_power ==
    Ret(<<"set_db power_method dynamic_vectorless",
          "set_dynamic_power_simulation -resolution 500ps",
          "report_power -out_dir activePowerReports">>, TRUE)

Voltus_rail_analysis(method, power_dir, output_dir, e, a) ==
    LET accuracy == IF e.rail_accuracy # "" THEN e.rail_accuracy
                    ELSE IF "_ran_stdcell_pgv" \in a THEN "hd" ELSE "xd"
        pg_libs == "<tech_pgv>/techonly.cl"
                   \o (IF "_ran_stdcell_pgv" \in a THEN " <stdcell_pgv>/stdcells.cl" ELSE "")
                   \o (IF "_ran_macro_pgv" \in a THEN " <macro_pgv>/macros_<lib>.cl" ELSE "")
    IN  <<"set_rail_analysis_config -method " \o method \o " -accuracy " \o accuracy
          \o " -process_techgen_em_rules true -em_peak_analysis true -enable_rlrp_analysis true"
          \o " -gif_resolution high -verbosity true"
          \o (IF method = "static" THEN " -enable_sensitivity_analysis true" ELSE "")
          \o " -power_grid_libraries { " \o pg_libs \o " }",
          "set_power_data -format current { " \o power_dir \o "/" \o method \o "_<net>.ptiavg }",
          "report_rail -output_dir " \o output_dir \o " -type domain ALL">>

Voltus_static_rail(e, a) ==
    Ret(Voltus_rail_analysis("static", "staticPowerReports", "staticRailReports", e, a), TRUE)

RECURSIVE Voltus_active_rail_vectors(_, _, _)
\* the vector-based passes of active_rail, one per waveform i..n
Voltus_active_rail_vectors(i, e, a) ==
    IF i > e.waveforms THEN <<>>
    ELSE Voltus_rail_analysis("dynamic", "activePower.wave" \o ToString(i) \o ".vcd",
                              "activeRailReports.wave" \o ToString(i) \o ".vcd", e, a)
         \o Voltus_active_rail_vectors(i + 1, e, a)

Voltus_active_rail(e, a) ==
    Ret(Voltus_rail_analysis("dynamic", "activePowerReports", "activeRailReports", e, a)
        \o Voltus_active_rail_vectors(1, e, a), TRUE)

run_voltus(out, st) ==
    FlushAndRun(out, "exit", RunDir \o "/power.tcl",
                <<"<voltus_bin>", "-init", RunDir \o "/power.tcl", "-no_gui", "-common_ui">>,
                TRUE, st)

VoltusStep(n, e, a, out, st) ==
    CASE n = "init_technology" -> Voltus_init_technology(e)
      [] n = "init_design" -> Voltus_init_design(e)
      [] n = "static_power" -> Voltus_static_power
      [] n = "active_power" -> Voltus_active_power
      [] n = "static_rail" -> Voltus_static_rail(e, a)
      [] n = "active_rail" -> Voltus_active_rail(e, a)
      [] n = "run_voltus" -> run_voltus(out, st)

-----------------------------------------------------------------------------
\* Xcelium step actions.  They use no output buffer: each writes an argument
\* file and launches xrun on it.

\* generate_arg_file: the file it writes; the text stands for the header and
\* the option sections
generate_arg_file(file_name, header) ==
    [name |-> RunDir \o "/" \o file_name, text |-> "# " \o header]

\* generate_gl_deposit_tcl opens the list of all registers without looking at
\* the result of its isfile test: a missing file raises
SimTclRaises(e) == e.level = "GateLevel" /\ ~e.all_regs_exists

\* generate_sim_tcl: the driver ends with run, the closing of the databases
\* and exit; when the deposits raise, what was written before them is left
generate_sim_tcl(e) ==
    [name |-> RunDir \o "/xrun_sim.tcl",
     text |-> JoinWith("\n", <<"# HAMMER-GEN SIM TCL DRIVER", "source <xmsimrc_def> ">>
                              \o (IF e.waveforms > 0
                                  THEN <<"database -open -vcd vcddb -into waveform.vcd -default  ">>
                                  ELSE <<>>)
                              \o (IF SimTclRaises(e) THEN <<>>
                                  ELSE (IF e.level = "GateLevel"
                                        THEN <<"deposit <tb>.<dut>.<path>.<pin> = 0 -release">>
                                        ELSE <<>>)
                                       \o <<"run ", "database -close *db ", "exit">>))]

\* faulty variant: the checks of the binary and of the input files are skipped
Xcelium_compile_xrun_unchecked(e, st) ==
    [Ret(<<>>, TRUE)
     EXCEPT !.script = <<generate_arg_file("xrun_compile.arg",
                                           "HAMMER-GEN XRUN COMPILE ARG FILE")>>,
            !.execs = <<Exec(<<"<xcelium_bin>",
                               "-compile -f " \o RunDir \o "/xrun_compile.arg">>, st)>>]

Xcelium_compile_xrun(e, st) ==
    IF ~e.xcelium_bin_exists THEN Ret(<<>>, FALSE)
    ELSE IF ~e.input_files_ok THEN Ret(<<>>, FALSE)
    ELSE [Ret(<<>>, TRUE)
          EXCEPT !.script = <<generate_arg_file("xrun_compile.arg",
                                                "HAMMER-GEN XRUN COMPILE ARG FILE")>>,
                 !.execs = <<Exec(<<"<xcelium_bin>",
                                    "-compile -f " \o RunDir \o "/xrun_compile.arg">>, st)>>]

Xcelium_elaborate_xrun(e, st) ==
    [Ret(<<>>, TRUE)
     EXCEPT !.script = <<generate_arg_file("xrun_elab.arg",
                                           "HAMMER-GEN XRUN ELAB ARG FILE")>>,
            !.execs = <<Exec(<<"<xcelium_bin>",
                               "-elaborate -f " \o RunDir \o "/xrun_elab.arg">>, st)>>]

Xcelium_sim_xrun(e, st) ==
    IF SimTclRaises(e)
    THEN [Ret(<<>>, FALSE)
          EXCEPT !.raised = TRUE,
                 !.script = <<generate_arg_file("xrun_sim.arg",
                                                "HAMMER-GEN XRUN SIM ARG FILE"),
                              generate_sim_tcl(e)>>]
    ELSE [Ret(<<>>, TRUE)
          EXCEPT !.script = <<generate_arg_file("xrun_sim.arg",
                                                "HAMMER-GEN XRUN SIM ARG FILE"),
                              generate_sim_tcl(e)>>,
                 !.execs = <<Exec(<<"<xcelium_bin>",
                                    "-R -f " \o RunDir \o "/xrun_sim.arg -input "
                                    \o RunDir \o "/xrun_sim.tcl">>, st)>>]

XceliumStep(n, e, st) ==
    CASE n = "compile_xrun" -> Xcelium_compile_xrun(e, st)
      [] n = "elaborate_xrun" -> Xcelium_elaborate_xrun(e, st)
      [] n = "sim_xrun" -> Xcelium_sim_xrun(e, st)

\* step.func(self): the action of step n of plugin t
StepFunc(t, n, e, mode, a, out, st) ==
    CASE t = "Innovus" -> InnovusStep(n, e, mode, st)
      [] t = "Genus" -> GenusStep(n, e, mode)
      [] t = "Joules" -> JoulesStep(n, e, out, st)
      [] t = "Voltus" -> VoltusStep(n, e, a, out, st)
      [] t = "Xcelium" -> XceliumStep(n, e, st)

-----------------------------------------------------------------------------
\* Innovus power straps by tracks.

\* the stackup: metals with their index and routing direction
Stackup ==
    <<[name |-> "M1", index |-> 1, direction |-> "horizontal"],
      [name |-> "M2", index |-> 2, direction |-> "vertical"],
      [name |-> "M3", index |-> 3, direction |-> "horizontal"],
      [name |-> "M4", index |-> 4, direction |-> "vertical"]>>

MetalNames == {Stackup[i].name : i \in 1..Len(Stackup)}

\* self.get_stackup().get_metal(name)
get_metal(name) == Stackup[CHOOSE i \in 1..Len(Stackup) : Stackup[i].name = name]

\* no call yet
NoStraps == [called |-> FALSE, rail |-> "M1", layer_names |-> <<>>, err |-> "none",
             cmds |-> <<>>]

\* specify_std_cell_power_straps: the rails on technology.core.std_cell_rail_layer
specify_std_cell_power_straps(layer_name) ==
    <<"# Power strap definition for layer " \o layer_name \o " (rails):\n",
      "reset_db -category add_stripes",
      "add_stripes -pin_layer " \o layer_name \o " -layer " \o layer_name
      \o " -over_pins 1 -master \"<tapcell>\" -direction "
      \o get_metal(layer_name).direction \o " -width pin_width -nets { VSS VDD }\n">>

\* specify_power_straps, reached through specify_power_straps_by_tracks: one
\* group of straps on layer_name with vias down to bottom_via_layer_name
specify_power_straps(layer_name, bottom_via_layer_name) ==
    <<"# Power strap definition for layer " \o layer_name \o ":\n",
      "reset_db -category add_stripes",
      "set_db add_stripes_stacked_via_top_layer " \o layer_name,
      "set_db add_stripes_stacked_via_bottom_layer " \o bottom_via_layer_name,
      "set_db add_stripes_trim_antenna_back_to_shape {stripe}",
      "set_db add_stripes_spacing_from_block <blockage_spacing>",
      "add_stripes -create_pins 0 -block_ring_bottom_layer_limit " \o layer_name
      \o " -block_ring_top_layer_limit " \o bottom_via_layer_name
      \o " -direction " \o get_metal(layer_name).direction
      \o " -layer " \o layer_name \o " -nets {VSS VDD}"
      \o " -pad_core_ring_bottom_layer_limit " \o bottom_via_layer_name
      \o " -area [get_db designs .core_bbox]\n">>

RECURSIVE StrapGroupsAnyDirection(_, _)
\* faulty variant: two layers in a row may run in the same direction
StrapGroupsAnyDirection(layer_names, last) ==
    IF layer_names = <<>> THEN [err |-> "none", cmds |-> <<>>]
    ELSE LET layer == get_metal(Head(layer_names))
         IN  IF ~(layer.index > last.index)
             THEN [err |-> "AssertionError", cmds |-> <<>>]
             ELSE LET rest == StrapGroupsAnyDirection(Tail(layer_names), layer)
                  IN  IF rest.err # "none" THEN rest
                      ELSE [err |-> "none",
                            cmds |-> specify_power_straps(layer.name, last.name)
                                     \o rest.cmds]

RECURSIVE StrapGroups(_, _)
\* the loop of specify_all_power_straps_by_tracks over layer_names, `last`
\* being the metal below: the exception it ends with, or the commands
StrapGroups(layer_names, last) ==
    IF layer_names = <<>> THEN [err |-> "none", cmds |-> <<>>]
    ELSE LET layer == get_metal(Head(layer_names))
         IN  IF ~(layer.index > last.index)
             THEN [err |-> "AssertionError", cmds |-> <<>>]
             ELSE IF last.direction = layer.direction
             THEN [err |-> "ValueError", cmds |-> <<>>]
             ELSE LET rest == StrapGroups(Tail(layer_names), layer)
                  IN  IF rest.err # "none" THEN rest
                      ELSE [err |-> "none",
                            cmds |-> specify_power_straps(layer.name, last.name)
                                     \o rest.cmds]

\* specify_all_power_straps_by_tracks with one power net: the list it returns,
\* or the exception it raises (and then it returns nothing)
specify_all_power_straps_by_tracks(layer_names, rail) ==
    LET g == StrapGroups(layer_names, get_metal(rail))
    IN  IF g.err # "none" THEN g
        ELSE [err |-> "none", cmds |-> specify_std_cell_power_straps(rail) \o g.cmds]

-----------------------------------------------------------------------------
\* Innovus.fill_outputs.

\* before fill_outputs: no output field is assigned
NoOutputs ==
    [assigned |-> {}, output_ilms |-> <<>>, output_gds |-> "", output_netlist |-> "",
     raised |-> FALSE, postRoute_found |-> FALSE]

IlmDataDir == RunDir \o "/<top>ILMDir/mmmc/ilm_data/<top>"

ILMStruct ==
    [dir |-> RunDir \o "/<top>ILMDir", data_dir |-> IlmDataDir, module |-> "<top>",
     lef |-> RunDir \o "/<top>ILM.lef"]

\* faulty variant: a missing <top>_postRoute.v.gz is not looked for
Innovus_fill_outputs_unchecked(a, found) ==
    [assigned |-> {"output_ilms", "output_gds", "output_netlist"},
     output_ilms |-> IF "_ran_write_ilm" \in a THEN <<ILMStruct>> ELSE <<>>,
     output_gds |-> RunDir \o "/<top>.gds",
     output_netlist |-> RunDir \o "/<top>.lvs.v",
     raised |-> FALSE, postRoute_found |-> found]

\* fill_outputs with the flags `a` set; `found` is what
\* os.path.isfile(<top>_postRoute.v.gz) returns
Innovus_fill_outputs(a, found) ==
    IF "_ran_write_ilm" \in a /\ ~found
    THEN [NoOutputs EXCEPT !.raised = TRUE, !.postRoute_found = found]
    ELSE [assigned |-> {"output_ilms", "output_gds", "output_netlist"},
          output_ilms |-> IF "_ran_write_ilm" \in a THEN <<ILMStruct>> ELSE <<>>,
          output_gds |-> RunDir \o "/<top>.gds",
          output_netlist |-> RunDir \o "/<top>.lvs.v",
          raised |-> FALSE, postRoute_found |-> found]

-----------------------------------------------------------------------------
\* The process-wide logging toggles.

LoggingStates == [enable_colour : BOOLEAN, enable_tag : BOOLEAN]

\* the values of the toggles when the process starts
LoggingDefault == [enable_colour |-> TRUE, enable_tag |-> TRUE]

\* run_innovus, run_joules, run_voltus: both toggles are set to False,
\* run_executable is called, both toggles are set to True
ToggleAroundRun(lg) ==
    LET during == [lg EXCEPT !.enable_colour = FALSE, !.enable_tag = FALSE]
    IN  [during EXCEPT !.enable_colour = TRUE, !.enable_tag = TRUE]

\* compile_xrun: after run_executable both toggles are set to True
ToggleAfterRun(lg) == [lg EXCEPT !.enable_colour = TRUE, !.enable_tag = TRUE]

\* the toggles after action n of plugin t returned r; run_genus and the other
\* Xcelium steps do not touch them
LoggingAfter(t, n, lg, r) ==
    CASE t \in {"Innovus", "Joules", "Voltus"} /\ r.final -> ToggleAroundRun(lg)
      [] t = "Xcelium" /\ n = "compile_xrun" /\ r.execs # <<>> -> ToggleAfterRun(lg)
      [] OTHER -> lg


-----------------------------------------------------------------------------
\* The hooks.

\* what a hook hands back: the commands appended and the transition records
Hook(cmds, trans) == [cmds |-> cmds, trans |-> trans]

\* faulty variant: the restore command is emitted for every first step
InnovusDoPreStepsAlways(first_step) ==
    Hook(<<"read_db pre_" \o first_step>>, <<>>)

InnovusDoPreSteps(first_step) ==
    IF first_step # "init_design"
    THEN Hook(<<"read_db pre_" \o first_step>>, <<>>)
    ELSE Hook(<<>>, <<>>)

\* faulty variant: the checkpoint is named for the step just run
InnovusDoBetweenStepsPrev(prev, next) ==
    Hook(<<"write_db pre_" \o prev>>, <<<<prev, next>>>>)

\* faulty variant: the transition record is written the wrong way round
InnovusDoBetweenStepsSwapped(prev, next) ==
    Hook(<<"write_db pre_" \o next>>, <<<<next, prev>>>>)

\* faulty variant: the transition record is forgotten
InnovusDoBetweenStepsNoRecord(prev, next) ==
    Hook(<<"write_db pre_" \o next>>, <<>>)

InnovusDoBetweenSteps(prev, next) ==
    Hook(<<"write_db pre_" \o next>>, <<<<prev, next>>>>)

GenusBannerPre(name) ==
    <<"\n" \o Hashes, "# Starting stage: " \o name, Hashes \o "\n">>

\* faulty variant: the test on the first step is inverted, so that a resumed
\* run restores nothing
GenusDoPreStepsNoRestore(first_step) ==
    Hook(GenusBannerPre(first_step)
         \o (IF first_step = "init_environment"
             THEN <<"source pre_" \o first_step \o ".script.tcl",
                    "read_db pre_" \o first_step \o ".db">>
             ELSE <<>>), <<>>)

GenusDoPreSteps(first_step) ==
    Hook(GenusBannerPre(first_step)
         \o (IF first_step # "init_environment"
             THEN <<"source pre_" \o first_step \o ".script.tcl",
                    "read_db pre_" \o first_step \o ".db">>
             ELSE <<>>), <<>>)

GenusDoBetweenSteps(prev, next) ==
    Hook(<<"write_db -all_root_attributes -script pre_" \o next \o ".setup.tcl pre_"
           \o next \o ".db",
           Hashes, "# Starting stage: " \o next, Hashes>>, <<>>)

\* Joules and Voltus override no hook: the base hooks append nothing
DoPreStepsOf(t, first_step) ==
    CASE t = "Innovus" -> InnovusDoPreSteps(first_step)
      [] t = "Genus" -> GenusDoPreSteps(first_step)
      [] OTHER -> Hook(<<>>, <<>>)

DoBetweenStepsOf(t, prev, next) ==
    CASE t = "Innovus" -> InnovusDoBetweenSteps(prev, next)
      [] t = "Genus" -> GenusDoBetweenSteps(prev, next)
      [] OTHER -> Hook(<<>>, <<>>)

\* faulty variant: the arguments of os.symlink are exchanged
LinkReversed(prev, next) ==
    [dst |-> RunDir \o "/pre_" \o next, src |-> RunDir \o "/post_" \o prev]

Link(prev, next) ==
    [dst |-> RunDir \o "/post_" \o prev, src |-> RunDir \o "/pre_" \o next]

RECURSIVE CreateSymlinksSilent(_, _, _, _)
\* faulty variant: no OSError is logged
CreateSymlinksSilent(trans, i, lk, error_at) ==
    IF i > Len(trans) THEN [links |-> lk, warnings |-> <<>>, events |-> <<>>]
    ELSE LET l == Link(trans[i][1], trans[i][2])
         IN  IF \E x \in lk : x.dst = l.dst
             THEN [links |-> lk, warnings |-> <<>>,
                   events |-> <<Event("symlink EEXIST", l.dst)>>]
             ELSE IF i = error_at
             THEN [links |-> lk, warnings |-> <<>>,
                   events |-> <<Event("symlink EACCES", l.dst)>>]
             ELSE LET rest == CreateSymlinksSilent(trans, i + 1, lk \cup {l}, error_at)
                  IN  [rest EXCEPT !.events = <<Event("symlink", l.dst)>> \o @]

RECURSIVE CreateSymlinks(_, _, _, _)
\* the try block of Innovus.do_post_steps from the i-th transition on: an
\* OSError ends the loop; it is logged unless it is EEXIST
CreateSymlinks(trans, i, lk, error_at) ==
    IF i > Len(trans) THEN [links |-> lk, warnings |-> <<>>, events |-> <<>>]
    ELSE LET l == Link(trans[i][1], trans[i][2])
         IN  IF \E x \in lk : x.dst = l.dst
             THEN [links |-> lk, warnings |-> <<>>,
                   events |-> <<Event("symlink EEXIST", l.dst)>>]
             ELSE IF i = error_at
             THEN [links |-> lk,
                   warnings |-> <<"Failed to create post_* symlinks: " \o l.dst>>,
                   events |-> <<Event("symlink EACCES", l.dst)>>]
             ELSE LET rest == CreateSymlinks(trans, i + 1, lk \cup {l}, error_at)
                  IN  [rest EXCEPT !.events = <<Event("symlink", l.dst)>> \o @]

\* do_post_steps: Innovus creates the symlinks and then runs the tool, Genus
\* runs the tool, the base hook of Joules and Voltus returns True
\* faulty variant: an OSError of os.symlink is not caught and ends the hook
DoPostStepsOfAbort(t, trans, lk, e, out, st) ==
    CASE t = "Innovus" ->
            LET sym == CreateSymlinks(trans, 1, lk, e.symlink_error_at)
                failed == \E i \in 1..Len(sym.events) : sym.events[i].kind # "symlink"
                ret == IF failed THEN Ret(<<>>, FALSE) ELSE run_innovus(out, st)
            IN  [ret |-> ret, sym |-> sym, events |-> sym.events \o EventsOf(ret)]
      [] t = "Genus" ->
            LET ret == run_genus(out, e, st)
            IN  [ret |-> ret, sym |-> [links |-> lk, warnings |-> <<>>],
                 events |-> EventsOf(ret)]
      [] OTHER ->
            [ret |-> Ret(<<>>, TRUE), sym |-> [links |-> lk, warnings |-> <<>>],
             events |-> <<>>]

\* faulty variant: Innovus runs the tool first and creates the symlinks after
DoPostStepsOfRunFirst(t, trans, lk, e, out, st) ==
    CASE t = "Innovus" ->
            LET sym == CreateSymlinks(trans, 1, lk, e.symlink_error_at)
                ret == run_innovus(out, st)
            IN  [ret |-> ret, sym |-> sym, events |-> EventsOf(ret) \o sym.events]
      [] t = "Genus" ->
            LET ret == run_genus(out, e, st)
            IN  [ret |-> ret, sym |-> [links |-> lk, warnings |-> <<>>],
                 events |-> EventsOf(ret)]
      [] OTHER ->
            [ret |-> Ret(<<>>, TRUE), sym |-> [links |-> lk, warnings |-> <<>>],
             events |-> <<>>]

DoPostStepsOf(t, trans, lk, e, out, st) ==
    CASE t = "Innovus" ->
            LET sym == CreateSymlinks(trans, 1, lk, e.symlink_error_at)
                ret == run_innovus(out, st)
            IN  [ret |-> ret, sym |-> sym, events |-> sym.events \o EventsOf(ret)]
      [] t = "Genus" ->
            LET ret == run_genus(out, e, st)
            IN  [ret |-> ret, sym |-> [links |-> lk, warnings |-> <<>>],
                 events |-> EventsOf(ret)]
      [] OTHER ->
            [ret |-> Ret(<<>>, TRUE), sym |-> [links |-> lk, warnings |-> <<>>],
             events |-> <<>>]


-----------------------------------------------------------------------------
\* The environment of a run.

DefaultEnv ==
    [input_files_ok |-> TRUE, clock_ports |-> 1, dont_use |-> 0, power_spec |-> FALSE,
     input_ilms |-> 0, gds_merge |-> FALSE, symlink_error_at |-> 0,
     clock_gating_auto |-> FALSE, rtl_filelist |-> FALSE, setup_corner |-> TRUE,
     is_physical |-> FALSE, generate_only |-> FALSE,
     corner |-> "none", level |-> "RTL", waveforms |-> 0, reports |-> <<>>, saifs |-> 0,
     pgv_libs |-> FALSE, pg_dirs_exist |-> FALSE, macro_pgv |-> FALSE,
     macro_lib_dir_exists |-> FALSE, extra_lib_lefs_changed |-> FALSE,
     extra_lib_sp |-> TRUE, extra_lib_gds |-> TRUE, par_db_exists |-> TRUE,
     rail_accuracy |-> "", extra_lib_lefs |-> "macros_a.lef",
     xcelium_bin_exists |-> TRUE, custom_reports |-> 0,
     all_regs_exists |-> TRUE]

\* a power report names a toggle signal or not, and then a number of toggles or not
Reports ==
    {[toggle_signal |-> FALSE, num_toggles |-> FALSE],
     [toggle_signal |-> TRUE, num_toggles |-> TRUE],
     [toggle_signal |-> TRUE, num_toggles |-> FALSE]}

ReportLists == UNION {[1..n -> Reports] : n \in 0..MaxReports}

\* The inputs the first step alone reads vary only in runs that start at it.
InnovusEnvs(s) ==
    {[DefaultEnv EXCEPT !.input_files_ok = ok, !.dont_use = du, !.power_spec = ps,
                        !.input_ilms = il, !.clock_ports = cp, !.gds_merge = gm,
                        !.symlink_error_at = ea] :
        ok \in (IF s = 1 THEN BOOLEAN ELSE {TRUE}),
        du \in (IF s = 1 THEN 0..MaxDontUse ELSE {0}),
        ps \in (IF s = 1 THEN BOOLEAN ELSE {FALSE}),
        il \in (IF s = 1 THEN 0..MaxIlms ELSE {0}),
        cp \in 0..MaxClockPorts, gm \in BOOLEAN, ea \in 0..MaxErrorAt}

GenusEnvs(s) ==
    {[DefaultEnv EXCEPT !.input_files_ok = ok, !.dont_use = du, !.clock_gating_auto = cg,
                        !.input_ilms = il, !.rtl_filelist = fl, !.setup_corner = sc,
                        !.is_physical = ph, !.generate_only = go] :
        ok \in (IF s = 1 THEN BOOLEAN ELSE {TRUE}),
        du \in (IF s = 1 THEN 0..MaxDontUse ELSE {0}),
        cg \in (IF s = 1 THEN BOOLEAN ELSE {FALSE}),
        il \in (IF s = 1 THEN 0..MaxIlms ELSE {0}),
        fl \in (IF s = 1 THEN BOOLEAN ELSE {FALSE}),
        sc \in BOOLEAN, ph \in BOOLEAN, go \in BOOLEAN}

JoulesEnvs(s) ==
    {[DefaultEnv EXCEPT !.corner = c, !.level = lv, !.waveforms = w, !.reports = rs,
                        !.saifs = sf, !.custom_reports = cr] :
        c \in (IF s = 1 THEN {"none", "Extra", "Setup"} ELSE {"none"}),
        lv \in (IF s <= 2 THEN FlowLevels ELSE {"RTL"}),
        w \in (IF s <= 2 THEN 0..MaxWaveforms ELSE {0}),
        rs \in (IF s <= 2 THEN ReportLists ELSE {<<>>}),
        sf \in (IF s <= 2 THEN 0..MaxSaifs ELSE {0}),
        cr \in (IF s <= 2 THEN 0..MaxCustomReports ELSE {0})}

VoltusEnvs(s) ==
    {[DefaultEnv EXCEPT !.pgv_libs = pl, !.pg_dirs_exist = pd, !.macro_pgv = mp,
                        !.extra_lib_sp = sp, !.par_db_exists = db, !.rail_accuracy = ra,
                        !.waveforms = w] :
        pl \in (IF s = 1 THEN BOOLEAN ELSE {FALSE}),
        pd \in (IF s = 1 THEN BOOLEAN ELSE {FALSE}),
        mp \in (IF s = 1 THEN BOOLEAN ELSE {FALSE}),
        sp \in (IF s = 1 THEN BOOLEAN ELSE {TRUE}),
        db \in (IF s <= 2 THEN BOOLEAN ELSE {TRUE}),
        ra \in {"", "hd"}, w \in 0..MaxWaveforms}

XceliumEnvs(s) ==
    {[DefaultEnv EXCEPT !.xcelium_bin_exists = bin, !.input_files_ok = ok,
                        !.waveforms = w, !.level = lv, !.all_regs_exists = regs] :
        bin \in (IF s = 1 THEN BOOLEAN ELSE {TRUE}),
        ok \in (IF s = 1 THEN BOOLEAN ELSE {TRUE}),
        w \in 0..MaxWaveforms, lv \in {"RTL", "GateLevel"}, regs \in BOOLEAN}

EnvsOf(t, s) ==
    CASE t = "Innovus" -> InnovusEnvs(s)
      [] t = "Genus" -> GenusEnvs(s)
      [] t = "Joules" -> JoulesEnvs(s)
      [] t = "Voltus" -> VoltusEnvs(s)
      [] t = "Xcelium" -> XceliumEnvs(s)

\* run_dir holds nothing, or the post_* link an earlier run left for the
\* step this run starts at
LinksBefore(t, mode, s) ==
    IF t = "Innovus" /\ s < Len(StepsOf(t, mode))
    THEN {{}, {Link(StepsOf(t, mode)[s], StepsOf(t, mode)[s + 1])}}
    ELSE {{}}

Init ==
    /\ tool \in Tools
    /\ hierarchical_mode \in (IF tool \in {"Innovus", "Genus"} THEN HierarchicalModes
                              ELSE {"Flat"})
    /\ start_at \in 1..Len(StepsOf(tool, hierarchical_mode))
    /\ env \in EnvsOf(tool, start_at)
    /\ links \in LinksBefore(tool, hierarchical_mode, start_at)
    /\ pc = "NotStarted"
    /\ cur = 0
    /\ output = <<>>
    /\ origin = <<>>
    /\ step_transitions = <<>>
    /\ attrs = {}
    /\ invoked = <<>>
    /\ succeeded = {}
    /\ final_entries = <<>>
    /\ exec_calls = <<>>
    /\ files = <<>>
    /\ warnings = <<>>
    /\ events = <<>>
    /\ logging = LoggingDefault /\ outputs = NoOutputs /\ straps = NoStraps
    /\ result = "none"

-----------------------------------------------------------------------------
\* The driver: run(steps, start_at).

Tagged(cmds, kind, n) == [i \in 1..Len(cmds) |-> [kind |-> kind, step |-> n]]

ExecsBy(execs, kind, n) ==
    [i \in 1..Len(execs) |-> [args |-> execs[i].args, status |-> execs[i].status,
                              kind |-> kind, step |-> n]]

\* the step the driver runs after step i
NextIndex(i) == i + 1

\* what the driver returns once the post hook has returned
ResultOf(ok) == IF ok THEN "success" ELSE "failure"

\* the first hook: restore the checkpoint of the start step
DoPreSteps ==
    /\ pc = "NotStarted" /\ ~StepsRaises(tool, hierarchical_mode)
    /\ LET n == Steps[start_at]
           h == DoPreStepsOf(tool, n)
       IN  /\ output' = AppendAll(output, h.cmds)
           /\ origin' = origin \o Tagged(h.cmds, "pre", n)
    /\ cur' = start_at
    /\ pc' = "Step"
    /\ UNCHANGED <<tool, hierarchical_mode, start_at, env, step_transitions, attrs,
                   invoked, succeeded, final_entries, exec_calls, files, links,
                   warnings, events, logging, outputs, straps, result>>

\* the action of the current step
RunStep ==
    /\ pc = "Step"
    /\ \E st \in ExitStatuses :
         LET n == Steps[cur]
             r == StepFunc(tool, n, env, hierarchical_mode, attrs, output, st)
         IN  /\ invoked' = Append(invoked, n)
             /\ output' = AppendAll(output, r.cmds)
             /\ origin' = origin \o Tagged(r.cmds, "step", n)
             /\ exec_calls' = exec_calls \o ExecsBy(r.execs, "step", n)
             /\ events' = events \o EventsOf(r)
             /\ files' = files \o r.script
             /\ attrs' = attrs \cup r.sets
             /\ logging' = LoggingAfter(tool, n, logging, r)
             /\ final_entries' = IF r.final THEN Append(final_entries, succeeded)
                                 ELSE final_entries
             /\ IF r.raised
                THEN pc' = "Raised" /\ result' = "raised" /\ succeeded' = succeeded
                ELSE IF ~r.ok
                THEN pc' = "Failed" /\ result' = "failure" /\ succeeded' = succeeded
                ELSE /\ succeeded' = succeeded \cup {n}
                     /\ result' = result
                     /\ pc' = IF cur = Len(Steps) THEN "Post" ELSE "Between"
    /\ UNCHANGED <<tool, hierarchical_mode, start_at, env, cur, step_transitions,
                   links, warnings, outputs, straps>>

\* the hook between a step that succeeded and the next one
DoBetweenSteps ==
    /\ pc = "Between"
    /\ LET prev == Steps[cur]
           next == Steps[NextIndex(cur)]
           h == DoBetweenStepsOf(tool, prev, next)
       IN  /\ output' = AppendAll(output, h.cmds)
           /\ origin' = origin \o Tagged(h.cmds, "between", next)
           /\ step_transitions' = step_transitions \o h.trans
    /\ cur' = NextIndex(cur)
    /\ pc' = "Step"
    /\ UNCHANGED <<tool, hierarchical_mode, start_at, env, attrs, invoked, succeeded,
                   final_entries, exec_calls, files, links, warnings, events, logging, outputs, straps,
                   result>>

\* the hook after the last step, and the end of the run
DoPostSteps ==
    /\ pc = "Post"
    /\ \E st \in ExitStatuses :
         LET p == DoPostStepsOf(tool, step_transitions, links, env, output, st)
             r == p.ret
         IN  /\ links' = p.sym.links
             /\ warnings' = warnings \o p.sym.warnings
             /\ events' = events \o p.events
             /\ output' = AppendAll(output, r.cmds)
             /\ origin' = origin \o Tagged(r.cmds, "post", "")
             /\ exec_calls' = exec_calls \o ExecsBy(r.execs, "post", "")
             /\ files' = files \o r.script
             /\ logging' = LoggingAfter(tool, "", logging, r)
             /\ final_entries' = IF r.final THEN Append(final_entries, succeeded)
                                 ELSE final_entries
             /\ result' = ResultOf(r.ok)
    /\ pc' = "Done"
    /\ UNCHANGED <<tool, hierarchical_mode, start_at, env, cur, step_transitions,
                   attrs, invoked, succeeded, outputs, straps>>

Next == DoPreSteps \/ RunStep \/ DoBetweenSteps \/ DoPostSteps

Spec == Init /\ [][Next]_vars


-----------------------------------------------------------------------------
\* The output buffer on its own: append and verbose_append called on the
\* buffer of an Innovus object with arbitrary texts.

Texts == {"", "exit", "read_db pre_floorplan_design", "# a comment\nputs {a b}"}

InitAppend ==
    /\ tool = "Innovus" /\ hierarchical_mode = "Flat" /\ start_at = 1
    /\ env = DefaultEnv /\ links = {}
    /\ pc = "Buffer" /\ cur = 0
    /\ output = <<>> /\ origin = <<>> /\ step_transitions = <<>> /\ attrs = {}
    /\ invoked = <<>> /\ succeeded = {} /\ final_entries = <<>> /\ exec_calls = <<>>
    /\ files = <<>> /\ warnings = <<>> /\ events = <<>> /\ result = "none"
    /\ logging = LoggingDefault /\ outputs = NoOutputs /\ straps = NoStraps

CallAppend ==
    /\ pc = "Buffer" /\ Len(events) < MaxAppends
    /\ \E cmd \in Texts :
          /\ output' = append(output, cmd)
          /\ events' = Append(events, Event("append", cmd))
    /\ UNCHANGED <<tool, hierarchical_mode, start_at, env, pc, cur, origin,
                   step_transitions, attrs, invoked, succeeded, final_entries,
                   exec_calls, files, links, warnings, logging, outputs, straps, result>>

CallVerboseAppend ==
    /\ pc = "Buffer" /\ Len(events) < MaxAppends
    /\ \E cmd \in Texts :
          /\ output' = verbose_append(output, cmd)
          /\ events' = Append(events, Event("verbose_append", cmd))
    /\ UNCHANGED <<tool, hierarchical_mode, start_at, env, pc, cur, origin,
                   step_transitions, attrs, invoked, succeeded, final_entries,
                   exec_calls, files, links, warnings, logging, outputs, straps, result>>

NextAppend == CallAppend \/ CallVerboseAppend

SpecAppend == InitAppend /\ [][NextAppend]_vars

-----------------------------------------------------------------------------
\* Voltus.init_technology over a sequence of runs.  What lasts from one run to
\* the next is on storage: the macro PG library directory and
\* extra_lib_lefs.json, the list of extra-library LEFs a run recorded.  The
\* flags live in the tool object and start unset in every run.

LefLists == {"macros_a.lef", "macros_b.lef"}

MacroLibDir == "<cache_dir>/macro_pgv"

ExtraLibLefsJson == RunDir \o "/extra_lib_lefs.json"

Stored(name) == \E i \in 1..Len(files) : files[i].name = name

ContentsOf(name) == files[CHOOSE i \in 1..Len(files) : files[i].name = name].text

\* what init_technology finds: the settings of the run, whether macro_lib_dir
\* is a directory, and whether the LEF list differs from the recorded one
\* (no file: the prior list is empty)
PgvEnv(lefs, mp, sp, gds) ==
    [DefaultEnv EXCEPT !.extra_lib_lefs = lefs, !.macro_pgv = mp,
                       !.extra_lib_sp = sp, !.extra_lib_gds = gds,
                       !.macro_lib_dir_exists = Stored(MacroLibDir),
                       !.extra_lib_lefs_changed =
                           ~(Stored(ExtraLibLefsJson) /\ ContentsOf(ExtraLibLefsJson) = lefs)]

\* extra_lib_lefs.json is rewritten on entry of the generation branch, before
\* the checks for Spice netlists and GDS data
RecordsLefs(e) == (~e.macro_lib_dir_exists \/ e.extra_lib_lefs_changed) /\ e.macro_pgv

\* the generation branch got past both checks and emitted its commands
GeneratesMacros(e) == RecordsLefs(e) /\ e.extra_lib_sp /\ e.extra_lib_gds

\* the `already generated` branch
AlreadyGenerated(e) ==
    ~RecordsLefs(e) /\ e.macro_lib_dir_exists /\ ~e.extra_lib_lefs_changed

InitPgv ==
    /\ tool = "Voltus" /\ hierarchical_mode = "Flat" /\ start_at = 1
    /\ env = DefaultEnv /\ links = {}
    /\ pc = "Pgv" /\ cur = 0
    /\ \/ files = <<>> /\ events = <<>>
       \/ /\ files = <<[name |-> ExtraLibLefsJson, text |-> "macros_a.lef"],
                        [name |-> MacroLibDir, text |-> "macros_a.lef"]>>
          /\ events = <<Event("macro PG libraries generated", "macros_a.lef")>>
    /\ output = <<>> /\ origin = <<>> /\ step_transitions = <<>> /\ attrs = {}
    /\ invoked = <<>> /\ succeeded = {} /\ final_entries = <<>> /\ exec_calls = <<>>
    /\ warnings = <<>> /\ result = "none" /\ logging = LoggingDefault /\ outputs = NoOutputs /\ straps = NoStraps

\* one Voltus run, seen from init_technology: a new tool object, the step
\* action, and the tool executing the script of the run
RunInitTechnology ==
    /\ pc = "Pgv" /\ cur < MaxRuns
    /\ \E lefs \in LefLists, mp \in BOOLEAN, sp \in BOOLEAN, gds \in BOOLEAN :
         LET e == PgvEnv(lefs, mp, sp, gds)
             r == Voltus_init_technology(e)
             json == IF RecordsLefs(e) THEN <<[name |-> ExtraLibLefsJson, text |-> lefs]>>
                     ELSE SelectSeq(files, LAMBDA f : f.name = ExtraLibLefsJson)
             dir == IF GeneratesMacros(e) THEN <<[name |-> MacroLibDir, text |-> lefs]>>
                    ELSE SelectSeq(files, LAMBDA f : f.name = MacroLibDir)
         IN  /\ env' = e
             /\ attrs' = r.sets
             /\ output' = AppendAll(<<>>, r.cmds)
             /\ files' = json \o dir
             /\ events' = events
                   \o (IF GeneratesMacros(e)
                       THEN <<Event("macro PG libraries generated", lefs)>> ELSE <<>>)
                   \o (IF "_ran_macro_pgv" \in r.sets /\ AlreadyGenerated(e)
                       THEN <<Event("macro PG libraries taken as generated", lefs)>>
                       ELSE <<>>)
    /\ cur' = cur + 1
    /\ UNCHANGED <<tool, hierarchical_mode, start_at, pc, origin, step_transitions,
                   invoked, succeeded, final_entries, exec_calls, links, warnings,
                   logging, outputs, straps, result>>

NextPgv == RunInitTechnology

SpecPgv == InitPgv /\ [][NextPgv]_vars

-----------------------------------------------------------------------------
\* specify_all_power_straps_by_tracks called on an Innovus object with any
\* list of strap layers, over a stackup whose rail layer is M1 or M2.

StrapLayerLists == UNION {[1..n -> MetalNames] : n \in 0..MaxStrapLayers}

InitStraps ==
    /\ tool = "Innovus" /\ hierarchical_mode = "Flat" /\ start_at = 1
    /\ env = DefaultEnv /\ links = {}
    /\ pc = "Straps" /\ cur = 0
    /\ output = <<>> /\ origin = <<>> /\ step_transitions = <<>> /\ attrs = {}
    /\ invoked = <<>> /\ succeeded = {} /\ final_entries = <<>> /\ exec_calls = <<>>
    /\ files = <<>> /\ warnings = <<>> /\ events = <<>> /\ result = "none"
    /\ logging = LoggingDefault /\ outputs = NoOutputs
    /\ straps \in {[NoStraps EXCEPT !.rail = r] : r \in {"M1", "M2"}}

CallSpecifyAllPowerStraps ==
    /\ pc = "Straps"
    /\ \E layer_names \in StrapLayerLists :
         LET r == specify_all_power_straps_by_tracks(layer_names, straps.rail)
         IN  /\ straps' = [called |-> TRUE, rail |-> straps.rail,
                           layer_names |-> layer_names, err |-> r.err, cmds |-> r.cmds]
             /\ pc' = IF r.err = "none" THEN "Returned" ELSE "Raised"
    /\ UNCHANGED <<tool, hierarchical_mode, start_at, env, cur, output, origin,
                   step_transitions, attrs, invoked, succeeded, final_entries,
                   exec_calls, files, links, warnings, events, logging, outputs,
                   result>>

NextStraps == CallSpecifyAllPowerStraps

SpecStraps == InitStraps /\ [][NextStraps]_vars

-----------------------------------------------------------------------------
\* The life of an Innovus object in any hierarchical mode: the steps property
\* is read, the run follows, and the framework calls fill_outputs once the
\* run has returned success.

InitOutputs ==
    /\ tool = "Innovus"
    /\ hierarchical_mode \in HierarchicalModes \cup {"Other"}
    /\ start_at \in 1..Len(StepsOf(tool, hierarchical_mode))
    /\ env = DefaultEnv
    /\ logging = LoggingDefault /\ outputs = NoOutputs /\ straps = NoStraps
    /\ links = {}
    /\ pc = "NotStarted" /\ cur = 0
    /\ output = <<>> /\ origin = <<>> /\ step_transitions = <<>> /\ attrs = {}
    /\ invoked = <<>> /\ succeeded = {} /\ final_entries = <<>> /\ exec_calls = <<>>
    /\ files = <<>> /\ warnings = <<>> /\ events = <<>> /\ result = "none"

FillOutputs ==
    /\ pc = "Done" /\ result = "success"
    /\ \E found \in BOOLEAN : outputs' = Innovus_fill_outputs(attrs, found)
    /\ pc' = IF outputs'.raised THEN "FillRaised" ELSE "Filled"
    /\ UNCHANGED <<tool, hierarchical_mode, start_at, env, cur, output, origin,
                   step_transitions, attrs, invoked, succeeded, final_entries,
                   exec_calls, files, links, warnings, events, logging, straps, result>>

\* reading the steps property raises: the run ends before any hook or step
RaiseInSteps ==
    /\ pc = "NotStarted" /\ StepsRaises(tool, hierarchical_mode)
    /\ pc' = "Raised" /\ result' = "raised"
    /\ UNCHANGED <<tool, hierarchical_mode, start_at, env, cur, output, origin,
                   step_transitions, attrs, invoked, succeeded, final_entries,
                   exec_calls, files, links, warnings, events, logging, outputs, straps>>

NextOutputs == Next \/ FillOutputs \/ RaiseInSteps

SpecOutputs == InitOutputs /\ [][NextOutputs]_vars

-----------------------------------------------------------------------------
\* Runs of the five plugins in a process whose logging toggles may have been
\* changed before the run (they are class attributes of HammerVLSILogging).
\* The four TCL-emitting plugins run on the default settings; the Xcelium run
\* varies the inputs its steps read.

Plugins == Tools \cup {"Xcelium"}

InitLogging ==
    /\ tool \in Plugins
    /\ hierarchical_mode \in (IF tool = "Innovus" THEN HierarchicalModes ELSE {"Flat"})
    /\ start_at \in 1..Len(StepsOf(tool, hierarchical_mode))
    /\ env \in (IF tool = "Xcelium" THEN XceliumEnvs(start_at) ELSE {DefaultEnv})
    /\ logging \in LoggingStates /\ outputs = NoOutputs /\ straps = NoStraps
    /\ links = {}
    /\ pc = "NotStarted" /\ cur = 0
    /\ output = <<>> /\ origin = <<>> /\ step_transitions = <<>> /\ attrs = {}
    /\ invoked = <<>> /\ succeeded = {} /\ final_entries = <<>> /\ exec_calls = <<>>
    /\ files = <<>> /\ warnings = <<>> /\ events = <<>> /\ result = "none"

SpecLogging == InitLogging /\ [][Next]_vars

-----------------------------------------------------------------------------
\* Vocabulary of the properties.

Started == pc # "NotStarted"

\* indices of the output buffer holding a given text
At(text) == {i \in 1..Len(output) : output[i] = text}

\* indices of the output buffer appended by the action of step n
ByStep(n) == {i \in 1..Len(output) : origin[i].kind = "step" /\ origin[i].step = n}

\* the checkpoint commands as the plugins' scripts spell them
RestoreText(t, n) ==
    IF t = "Innovus" THEN "read_db pre_" \o n ELSE "read_db pre_" \o n \o ".db"

PersistText(t, n) ==
    IF t = "Innovus" THEN "write_db pre_" \o n
    ELSE "write_db -all_root_attributes -script pre_" \o n \o ".setup.tcl pre_" \o n \o ".db"

\* the boundaries (k, k+1) the run has crossed so far
Crossed == IF Started THEN start_at..(cur - 1) ELSE {}

\* the comment lines of a Genus script: the stage banners
IsComment(text) ==
    \/ text \in {Hashes, "\n" \o Hashes, Hashes \o "\n"}
    \/ \E n \in Range(Steps) : text = "# Starting stage: " \o n

\* exactly one persist command for boundary (k, k+1), after every command of
\* step k and before every command of step k+1
PersistedOnceAt(k) ==
    /\ Cardinality(At(PersistText(tool, Steps[k + 1]))) = 1
    /\ \A i \in At(PersistText(tool, Steps[k + 1])) :
          /\ \A j \in ByStep(Steps[k]) : j < i
          /\ \A j \in ByStep(Steps[k + 1]) : i < j

\* C1: a run of Innovus or Genus started at step n has emitted, in its pre-steps
\* hook, the checkpoint-restore command for n if and only if n is not the first
\* step of the plugin's step list.
C1_RestoreIffNotFirst ==
    (tool \in {"Innovus", "Genus"} /\ Started) =>
        ((\E i \in At(RestoreText(tool, Steps[start_at])) : origin[i].kind = "pre")
            <=> start_at # 1)

C1_Witness ==
    /\ tool = "Genus" /\ start_at = 3 /\ pc = "Step"
    /\ At("read_db pre_syn_map.db") # {}

\* C2 as stated: in any run every boundary crossed has exactly one persist
\* command named for the next step, between the commands of the two steps, and
\* its (cur, nxt) pair in the transition history.
C2_Original ==
    \A k \in Crossed :
        /\ PersistedOnceAt(k)
        /\ \E i \in 1..Len(step_transitions) :
              step_transitions[i] = <<Steps[k], Steps[k + 1]>>

\* C2 amended: in an Innovus run every boundary crossed has exactly one
\* `write_db pre_nxt` between the commands of the two steps and exactly one
\* (cur, nxt) record, in crossing order; in a Genus run it has exactly one
\* write_db command for pre_nxt.db at that place and no transition record is
\* kept; Joules and Voltus persist nothing and keep no record.
C2_PersistAndRecord ==
    /\ tool = "Innovus" =>
          /\ Len(step_transitions) = Cardinality(Crossed)
          /\ \A k \in Crossed :
                /\ PersistedOnceAt(k)
                /\ step_transitions[k - start_at + 1] = <<Steps[k], Steps[k + 1]>>
    /\ tool = "Genus" =>
          /\ \A k \in Crossed : PersistedOnceAt(k)
          /\ step_transitions = <<>>
    /\ tool \in {"Joules", "Voltus"} =>
          /\ \A i \in 1..Len(origin) : origin[i].kind = "step"
          /\ step_transitions = <<>>

C2_Witness ==
    /\ tool = "Innovus" /\ pc = "Step" /\ cur = start_at + 2
    /\ Len(step_transitions) = 2

FailingCondition ==
    /\ pc \in {"Between", "Post", "Done", "Failed"}
    /\ \/ tool \in {"Innovus", "Genus"} /\ cur = 1 /\ ~env.input_files_ok
       \/ /\ tool = "Joules" /\ cur = 2
          /\ \/ env.level \notin {"RTL", "GateLevel"}
             \/ \E i \in 1..Len(env.reports) :
                   env.reports[i].toggle_signal /\ ~env.reports[i].num_toggles

\* C4: when the action of step i fails, the run ends there with the failure as
\* its result, no persist command for the boundary after i is in the buffer and
\* no record (i, i+1) is in the transition history, while the persist commands
\* and records of the boundaries crossed before are still there.
C4_FailFast ==
    (pc = "Failed" \/ FailingCondition) =>
        /\ pc = "Failed" /\ result = "failure"
        /\ cur < Len(Steps) =>
              /\ At(PersistText(tool, Steps[cur + 1])) = {}
              /\ \A i \in 1..Len(step_transitions) :
                    step_transitions[i] # <<Steps[cur], Steps[cur + 1]>>
        /\ tool \in {"Innovus", "Genus"} => \A k \in Crossed : PersistedOnceAt(k)
        /\ tool = "Innovus" => Len(step_transitions) = Cardinality(Crossed)

C4_Witness ==
    /\ tool = "Genus" /\ pc = "Failed" /\ cur = 1 /\ result = "failure"
    /\ ~env.input_files_ok /\ Len(output) > 3


\* every step was run and succeeded
AllStepsSucceeded == pc \in {"Post", "Done"}

\* the consecutive pairs of step names from the start step to the last step
ConsecutivePairs ==
    [i \in 1..(Len(Steps) - start_at) |->
        <<Steps[start_at + i - 1], Steps[start_at + i]>>]

\* C5 as stated: in every run in which all steps succeed the transition history
\* is the list of consecutive pairs from the start step to the last step.
C5_Original == AllStepsSucceeded => step_transitions = ConsecutivePairs

\* C5 amended: in every Innovus run in which all steps succeed the transition
\* history is the list of consecutive pairs from the start step to the last
\* step, of length len(S) - index(start_at) - 1 (index from 0); Genus, Joules
\* and Voltus keep no transition history.
C5_InnovusHistory ==
    AllStepsSucceeded =>
        /\ tool = "Innovus" =>
              /\ step_transitions = ConsecutivePairs
              /\ Len(step_transitions) = Len(Steps) - (start_at - 1) - 1
              /\ \A i \in 1..(Len(step_transitions) - 1) :
                    step_transitions[i][2] = step_transitions[i + 1][1]
        /\ tool # "Innovus" => step_transitions = <<>>

C5_Witness ==
    /\ tool = "Innovus" /\ pc = "Done" /\ start_at = 3
    /\ Len(step_transitions) = Len(Steps) - 3
    /\ step_transitions[1] = <<"place_tap_cells", "power_straps">>

\* C6: in a run started at a step n that is not the first, no action of a step
\* before n has been invoked, the buffer holds no command of such a step, and
\* no persist command and no transition record exists for a boundary before n.
C6_SkippedStepsUntouched ==
    (Started /\ start_at > 1) =>
        \A k \in 1..(start_at - 1) :
            /\ Steps[k] \notin Range(invoked)
            /\ ByStep(Steps[k]) = {}
            /\ At(PersistText(tool, Steps[k + 1])) = {}
            /\ \A i \in 1..Len(step_transitions) :
                  /\ step_transitions[i][1] # Steps[k]
                  /\ step_transitions[i][2] # Steps[k + 1]

C6_Witness ==
    /\ tool = "Innovus" /\ start_at = 4 /\ pc = "Done"
    /\ At("read_db pre_power_straps") # {} /\ Len(step_transitions) > 2

\* C7: the step actions are invoked in the order of the step list, from the
\* start step on, none twice; when all have succeeded each step from the start
\* step to the last has been invoked exactly once; and the buffer holds the
\* commands of a step before those of every later step.
C7_OnceEachInOrder ==
    /\ Started => /\ Len(invoked) <= Len(Steps) - start_at + 1
                  /\ invoked = SubSeq(Steps, start_at, start_at + Len(invoked) - 1)
    /\ \A i, j \in 1..Len(invoked) : invoked[i] = invoked[j] => i = j
    /\ AllStepsSucceeded => invoked = SubSeq(Steps, start_at, Len(Steps))
    /\ \A i, j \in 1..Len(origin) :
          (i < j /\ origin[i].kind = "step" /\ origin[j].kind = "step"
             /\ origin[i].step # origin[j].step)
          => \E a, b \in 1..Len(invoked) :
                a < b /\ invoked[a] = origin[i].step /\ invoked[b] = origin[j].step

C7_Witness ==
    /\ tool = "Voltus" /\ pc = "Done" /\ start_at = 2
    /\ invoked = <<"init_design", "static_power", "active_power", "static_rail",
                   "active_rail", "run_voltus">>

\* nothing happened after the failure of the step the run stopped at
NothingAfterFailure ==
    pc = "Failed" =>
        /\ final_entries = <<>> /\ files = <<>>
        /\ invoked # <<>> /\ invoked[Len(invoked)] = Steps[cur]
        /\ \A i \in 1..Len(origin) :
              /\ origin[i].kind # "post"
              /\ origin[i].kind \in {"pre", "between"} =>
                    \E k \in start_at..cur : origin[i].step = Steps[k]

\* C8 as stated: the flush-and-run action is entered only after the last step
\* of the sequence has succeeded, and nothing happens after a failure.
C8_Original ==
    /\ \A i \in 1..Len(final_entries) : Steps[Len(Steps)] \in final_entries[i]
    /\ NothingAfterFailure

\* C8 amended: the flush-and-run action is entered at most once, and only after
\* every step action of the run that precedes it has succeeded: in Innovus and
\* Genus it is the post-steps hook, entered after the last step has succeeded;
\* in Joules and Voltus it is the action of the last step itself (run_joules,
\* run_voltus), entered after every step from the start step to the one before
\* the last has succeeded.  Nothing happens after a failure.
C8_FinalAfterPrecedingSteps ==
    /\ Len(final_entries) <= 1
    /\ \A i \in 1..Len(final_entries) :
          final_entries[i] =
            {Steps[k] : k \in start_at..(IF tool \in {"Innovus", "Genus"}
                                         THEN Len(Steps) ELSE Len(Steps) - 1)}
    /\ NothingAfterFailure

C8_Witness ==
    /\ tool = "Joules" /\ start_at = 1 /\ pc = "Post"
    /\ final_entries = <<{"init_technology", "init_design"}>>

\* the run_executable calls that launch the wrapped tool
Launches == {i \in 1..Len(exec_calls) : exec_calls[i].args[1] # "chmod"}

\* C9: a run reports success only if every step action succeeded and the tool
\* launched by the flush-and-run action did not return a failure status.
C9_SuccessOnlyIfToolSucceeded ==
    result = "success" =>
        /\ succeeded = {Steps[k] : k \in start_at..Len(Steps)}
        /\ \A i \in Launches : exec_calls[i].status = "ok"

AliasOf(pair) ==
    [dst |-> "run_dir/post_" \o pair[1], src |-> "run_dir/pre_" \o pair[2]]

\* the places in the event history where an alias was created, or failed to be
Created == {i \in 1..Len(events) : events[i].kind = "symlink"}

CreationFailed ==
    {i \in 1..Len(events) : events[i].kind \in {"symlink EEXIST", "symlink EACCES"}}

CreatedFor(pair) == {i \in Created : events[i].name = AliasOf(pair).dst}

Flushed == {i \in 1..Len(events) : events[i].kind = "write"}

Launched ==
    {i \in 1..Len(events) : events[i].kind = "run_executable" /\ events[i].name # "chmod"}

\* C12 as stated: an alias is created only after the buffer has been flushed to
\* the script file and the external tool has run.
C12_Original ==
    \A i \in Created : /\ \E j \in Flushed : j < i
                       /\ \E j \in Launched : j < i

\* C12 amended: Innovus.do_post_steps creates the aliases before it enters the
\* flush-and-run action: every alias creation, and every failed one, comes
\* before the script is written and before the tool is launched, so the aliases
\* are made while the checkpoints they point to are not yet written; the
\* script is then written and the tool launched.
C12_AliasesBeforeFinalization ==
    /\ \A i \in Created \cup CreationFailed :
          /\ \A j \in Flushed \cup Launched : i < j
          /\ tool = "Innovus" /\ pc = "Done"
    /\ (tool = "Innovus" /\ pc = "Done") =>
          /\ Cardinality(Flushed) = 1 /\ Cardinality(Launched) = 1
          /\ \A j \in Flushed : \A k \in Launched : j < k

C12_Witness ==
    /\ tool = "Innovus" /\ pc = "Done" /\ Cardinality(Created) >= 2
    /\ Len(events) >= 4
    /\ events[Len(events) - 1] = [kind |-> "write", name |-> "run_dir/par.tcl"]
    /\ events[Len(events)].kind = "run_executable"


\* C13: when the creation of an alias has failed (the alias exists already, or
\* any other OSError), the run does not fail and the flush-and-run action is
\* still carried out: the whole buffer, closed by `exit`, is written to par.tcl,
\* the tool is launched on it once, and the run reports success, as it does
\* when every alias is created.
C13_AliasFailureNotFatal ==
    (pc = "Done" /\ tool = "Innovus") =>
        /\ result = "success"
        /\ output[Len(output)] = "exit"
        /\ files = <<[name |-> "run_dir/par.tcl", text |-> JoinWith("\n", output)]>>
        /\ Cardinality(Launched) = 1
        /\ \A i \in Launched :
              /\ i = Len(events)
              /\ exec_calls[Len(exec_calls)].args =
                    <<"<innovus_bin>", "-nowin", "-common_ui", "-files", "run_dir/par.tcl">>

C13_Witness ==
    /\ pc = "Done" /\ tool = "Innovus" /\ result = "success"
    /\ \E i \in CreationFailed : events[i].kind = "symlink EACCES"
    /\ Launched # {} /\ files # <<>>


\* C14 as stated: every failure to create an alias, the alias existing already
\* included, is reported as a logged warning.
C14_Original ==
    \A i \in CreationFailed :
        "Failed to create post_* symlinks: " \o events[i].name \in Range(warnings)

\* C14 amended: a failure to create an alias is reported as a logged warning
\* unless the alias exists already (EEXIST), which is passed over in silence;
\* nothing else is logged as a warning by the hooks.
C14_WarningUnlessExists ==
    /\ \A i \in CreationFailed :
          ("Failed to create post_* symlinks: " \o events[i].name \in Range(warnings))
             <=> events[i].kind # "symlink EEXIST"
    /\ Len(warnings) =
          Cardinality({i \in CreationFailed : events[i].kind # "symlink EEXIST"})

C14_Witness ==
    /\ pc = "Done" /\ tool = "Innovus" /\ warnings = <<>>
    /\ \E i \in CreationFailed : events[i].kind = "symlink EEXIST"


\* C15: one alias per boundary crossed: in a completed run every transition
\* record either has its alias in run_dir or is one whose own creation failed;
\* a failure for one record does not leave a later record without its alias.
C15_RemainingAliasesCreated ==
    (pc = "Done" /\ tool = "Innovus") =>
        \A k \in 1..Len(step_transitions) :
            \/ AliasOf(step_transitions[k]) \in links
            \/ \E i \in CreationFailed : events[i].name = AliasOf(step_transitions[k]).dst


\* the names a checkpoint of step n can go by
ArtifactsOf(n) ==
    {"pre_" \o n, "pre_" \o n \o ".db", "pre_" \o n \o ".script.tcl",
     "pre_" \o n \o ".setup.tcl"}

\* the artifact names a list of commands reads (read_db, source)
NamesRead(cmds) ==
    {x \in UNION {ArtifactsOf(n) : n \in Range(Steps)} :
        \E i \in 1..Len(cmds) : cmds[i] \in {"read_db " \o x, "source " \o x}}

\* the artifact names a list of commands writes (write_db, with its -script)
NamesWritten(cmds) ==
    UNION {{x \in ArtifactsOf(n) :
              \E i \in 1..Len(cmds) :
                 \/ cmds[i] = "write_db " \o x
                 \/ \E y \in ArtifactsOf(n) :
                       cmds[i] \in {"write_db -all_root_attributes -script " \o x \o " " \o y,
                                    "write_db -all_root_attributes -script " \o y \o " " \o x}}
           : n \in Range(Steps)}

\* the commands the pre-steps hook has put in the buffer
PreCommands == SubSeq(output, 1, Cardinality({i \in 1..Len(origin) : origin[i].kind = "pre"}))

\* C16: in a run of Innovus or Genus started at a step n that is not the first,
\* the artifact names the restore commands of the pre-steps hook read are
\* exactly those the persist command of do_between_steps(prev, n) writes.
C16_RestoreReadsWhatPersistWrote ==
    (tool \in {"Innovus", "Genus"} /\ Started /\ start_at > 1) =>
        /\ NamesRead(PreCommands) # {}
        /\ NamesRead(PreCommands) =
              NamesWritten(DoBetweenStepsOf(tool, Steps[start_at - 1], Steps[start_at]).cmds)

\* the checkpoints this run can have put on storage: a persist command is only
\* text in the buffer until the tool is launched on the flushed script
CheckpointsOnStorage == IF Launched = {} THEN {} ELSE NamesWritten(output)

C18_AppendAddsOneEntry ==
    pc = "Buffer" =>
        /\ Len(output) = Len(events)
        /\ \A i \in 1..Len(events) : output[i] = events[i].name

C18_Witness ==
    /\ pc = "Buffer" /\ Len(output) = 3
    /\ output[1] = "exit" /\ output[2] = "" /\ output[3] = "exit"
    /\ events[3].kind = "append"


IsPrefix(a, b) == Len(a) <= Len(b) /\ SubSeq(b, 1, Len(a)) = a

\* C19: the output buffer is append-only during a run: every step of the run
\* (pre-steps hook, step action, between-steps hook, post-steps hook with the
\* flush-and-run action) leaves the earlier contents of the buffer as a prefix
\* of the new contents; no entry is removed, reordered or rewritten.
C19_BufferAppendOnly == [][IsPrefix(output, output')]_vars

C19_Witness ==
    /\ pc = "Done" /\ tool = "Genus" /\ start_at = 2
    /\ output[5] = "read_db pre_syn_generic.db"
    /\ output[Len(output)] = "quit" /\ Len(output) > 15


\* C20: in a run of Innovus or Genus started at a step that is not the first,
\* the checkpoint-restore command is in the buffer, put there by the pre-steps
\* hook, and comes before every command appended by a step action of the run.
C20_RestoreBeforeStepCommands ==
    (tool \in {"Innovus", "Genus"} /\ Started /\ start_at > 1) =>
        /\ Cardinality(At(RestoreText(tool, Steps[start_at]))) = 1
        /\ \A i \in At(RestoreText(tool, Steps[start_at])) :
              /\ origin[i].kind = "pre"
              /\ \A j \in 1..Len(output) : origin[j].kind = "step" => i < j
        /\ tool = "Genus" =>
              \A i \in At("source pre_" \o Steps[start_at] \o ".script.tcl") :
                 \A j \in 1..Len(output) : origin[j].kind = "step" => i < j

C20_Witness ==
    /\ tool = "Innovus" /\ start_at = 5 /\ pc = "Between" /\ cur = 6
    /\ output[1] = "read_db pre_place_opt_design"
    /\ ByStep("place_opt_design") # {} /\ ByStep("clock_tree") # {}


\* the quit command and the script file of each tool
QuitOf(t) == IF t = "Genus" THEN "quit" ELSE "exit"

ScriptOf(t) ==
    CASE t = "Innovus" -> "run_dir/par.tcl"
      [] t = "Genus" -> "run_dir/syn.tcl"
      [] t = "Joules" -> "run_dir/joules.tcl"
      [] t = "Voltus" -> "run_dir/power.tcl"

\* C21: once the flush-and-run action has written the script, the script is the
\* entries of the output buffer joined in order by newlines, the last entry of
\* the buffer is the quit command of the tool (exit for Innovus, Joules and
\* Voltus, quit for Genus), it comes after every command of a step and every
\* persist command, and the buffer stays as it was written for the rest of the
\* run.
C21_ScriptIsBufferEndingInQuit ==
    files # <<>> =>
        /\ Len(files) = 1
        /\ files[1].name = ScriptOf(tool)
        /\ files[1].text = JoinWith("\n", output)
        /\ output[Len(output)] = QuitOf(tool)
        /\ \A i \in 1..(Len(output) - 1) :
              /\ output[i] # QuitOf(tool)
              /\ origin[i].kind \in {"pre", "step", "between"}
        /\ origin[Len(origin)] =
              (IF tool \in {"Innovus", "Genus"} THEN [kind |-> "post", step |-> ""]
               ELSE [kind |-> "step", step |-> Steps[Len(Steps)]])

C21_Witness ==
    /\ pc = "Done" /\ tool = "Voltus" /\ start_at = 1 /\ Len(files) = 1
    /\ output[Len(output)] = "exit" /\ Len(output) > 10
    /\ files[1] = [name |-> "run_dir/power.tcl", text |-> JoinWith("\n", output)]


RECURSIVE AttrsFromStart(_)
\* the flags that are set when step k begins in a run of the same settings
\* started at the first step
AttrsFromStart(k) ==
    IF k = 1 THEN {}
    ELSE AttrsFromStart(k - 1)
         \cup StepFunc(tool, Steps[k - 1], env, hierarchical_mode,
                       AttrsFromStart(k - 1), <<>>, "ok").sets

\* the commands the action of step n has appended, in order
StepCommands(n) ==
    LET S == ByStep(n)
    IN  [i \in 1..Cardinality(S) |-> output[(CHOOSE m \in S : \A x \in S : m <= x) + i - 1]]

\* C22: the commands a step has appended in this run are those it appends, for
\* the same settings, in a run started at the first step: they do not depend on
\* a flag set by a step that this run skipped.
C22_StepOutputIndependentOfStart ==
    \A k \in 1..Len(Steps) :
        (Started /\ start_at <= k /\ Steps[k] \in succeeded) =>
            StepCommands(Steps[k]) =
                StepFunc(tool, Steps[k], env, hierarchical_mode,
                         AttrsFromStart(k), <<>>, "ok").cmds


\* C23: over any sequence of Voltus runs, init_technology takes the macro PG
\* libraries as already generated (sets ran_macro_pgv without emitting the
\* generation commands) for a list of extra-library LEFs only if the generation
\* commands were emitted for that list in an earlier run.
C23_AlreadyGeneratedOnlyIfGenerated ==
    \A i \in 1..Len(events) :
        events[i].kind = "macro PG libraries taken as generated" =>
            \E j \in 1..(i - 1) :
                events[j] = [kind |-> "macro PG libraries generated", name |-> events[i].name]



\* C24: the finalization action leaves enable_colour and enable_tag at the
\* values they had before it was called: no action of a run changes them.
C24_TogglesHoldPriorValues == [][logging' = logging]_vars


\* C25: in Innovus ran_write_ilm is true exactly when the write_ilm step ran
\* in this run; once fill_outputs has returned, output_ilms is non-empty iff
\* ran_write_ilm is true; and fill_outputs raises exactly when ran_write_ilm
\* is true and <top>_postRoute.v.gz is missing, and then none of output_ilms,
\* output_gds and output_netlist is assigned.
C25_IlmOutputs ==
    /\ ("_ran_write_ilm" \in attrs) <=> ("write_ilm" \in Range(invoked))
    /\ pc = "Filled" =>
          /\ (outputs.output_ilms # <<>>) <=> ("_ran_write_ilm" \in attrs)
          /\ {"output_ilms", "output_gds", "output_netlist"} \subseteq outputs.assigned
          /\ ~("_ran_write_ilm" \in attrs /\ ~outputs.postRoute_found)
    /\ pc = "FillRaised" =>
          /\ "_ran_write_ilm" \in attrs /\ ~outputs.postRoute_found
          /\ outputs.assigned = {}

C25_Witness ==
    /\ pc = "FillRaised" /\ "write_ilm" \in Range(invoked)
    /\ hierarchical_mode = "Leaf" /\ start_at > 1


\* C26: the Innovus step list starts with init_design and has pairwise
\* distinct names; Flat ends with write_design and has neither write_ilm nor
\* assemble_design; Leaf and Hierarchical end with write_design, write_ilm;
\* Top has assemble_design right after opt_design and right before
\* write_design, which is last, and no write_ilm; any other mode raises, so
\* that no hook and no step is run.
C26_StepListByMode ==
    LET s == InnovusSteps(hierarchical_mode)
        n == Len(s)
    IN  tool = "Innovus" =>
          IF hierarchical_mode \in HierarchicalModes
          THEN /\ n >= 2 /\ s[1] = "init_design"
               /\ \A i, j \in 1..n : i # j => s[i] # s[j]
               /\ hierarchical_mode = "Flat" =>
                     /\ s[n] = "write_design"
                     /\ "write_ilm" \notin Range(s) /\ "assemble_design" \notin Range(s)
               /\ hierarchical_mode \in {"Leaf", "Hierarchical"} =>
                     /\ s[n - 1] = "write_design" /\ s[n] = "write_ilm"
                     /\ "assemble_design" \notin Range(s)
               /\ hierarchical_mode = "Top" =>
                     /\ n >= 3 /\ s[n] = "write_design" /\ s[n - 1] = "assemble_design"
                     /\ s[n - 2] = "opt_design" /\ "write_ilm" \notin Range(s)
               /\ pc # "Raised"
               /\ \A i \in 1..Len(invoked) :
                     start_at + i - 1 <= n /\ invoked[i] = s[start_at + i - 1]
          ELSE /\ pc \in {"NotStarted", "Raised"}
               /\ invoked = <<>> /\ output = <<>>

C26_Witness ==
    /\ tool = "Innovus" /\ hierarchical_mode = "Top" /\ pc = "Filled" /\ start_at = 1
    /\ Len(invoked) = 10 /\ invoked[9] = "assemble_design"


\* C27: once the finalization of a Genus run has returned, the buffer ends
\* with quit, syn.tcl holds the whole buffer and the run reports success;
\* with generate_only no external process has been invoked, and without it
\* exactly one has been, on syn.tcl and after syn.tcl was written.
C27_GenusGenerateOnly ==
    (tool = "Genus" /\ pc = "Done") =>
      /\ output # <<>> /\ output[Len(output)] = "quit"
      /\ files = <<[name |-> RunDir \o "/syn.tcl", text |-> JoinWith("\n", output)]>>
      /\ result = "success"
      /\ IF env.generate_only
         THEN /\ exec_calls = <<>>
              /\ events = <<Event("write", RunDir \o "/syn.tcl")>>
         ELSE /\ Len(exec_calls) = 1
              /\ exec_calls[1].args =
                    <<"<genus_bin>", "-abort_on_error", "-f", RunDir \o "/syn.tcl", "-no_gui">>
              /\ events = <<Event("write", RunDir \o "/syn.tcl"),
                            Event("run_executable", "<genus_bin>")>>

C27_Witness ==
    /\ tool = "Genus" /\ pc = "Done" /\ env.generate_only /\ start_at = 1
    /\ Len(files) = 1 /\ exec_calls = <<>> /\ result = "success"


\* the read_stimulus and report_power commands of Joules.init_design
IsReadStimulus(cmd) ==
    \/ \E i \in 1..env.waveforms : cmd = Joules_waveform_stimulus(i)
    \/ \E i \in 1..Len(env.reports), r \in Reports : cmd = Joules_report_stimulus(r, i)
    \/ \E i \in 1..env.saifs : cmd = Joules_saif_stimulus(i)

IsReportPower(cmd) ==
    \/ cmd = Joules_waveforms_report
    \/ \E i \in 1..Len(env.reports) : cmd = Joules_report_power(i)
    \/ \E i \in 1..env.saifs : cmd = Joules_saif_report(i)
    \/ \E i \in 1..env.custom_reports : cmd = Joules_custom_report(i)

FlowLevelUnsupported == env.level \notin {"RTL", "GateLevel"}

ToggleSignalWithoutNumber ==
    \E i \in 1..Len(env.reports) :
        env.reports[i].toggle_signal /\ ~env.reports[i].num_toggles

\* C28: once Joules.init_design has been invoked, it has failed iff the flow
\* level is unsupported or a report names a toggle signal without a number of
\* toggles, and then it has appended no compute_power and no report_power
\* command; when it has succeeded it has appended compute_power once, every
\* read_stimulus command (one per waveform, report and SAIF file) before it
\* and every report_power command after it.
C28_JoulesStimulusBeforeCompute ==
    (tool = "Joules" /\ "init_design" \in Range(invoked)) =>
      LET cmds == StepCommands("init_design")
          cp == {i \in 1..Len(cmds) : cmds[i] = "compute_power -mode time_based"}
          rs == {i \in 1..Len(cmds) : IsReadStimulus(cmds[i])}
          rp == {i \in 1..Len(cmds) : IsReportPower(cmds[i])}
      IN  /\ ("init_design" \notin succeeded)
                <=> (FlowLevelUnsupported \/ ToggleSignalWithoutNumber)
          /\ "init_design" \notin succeeded =>
                /\ pc = "Failed" /\ result = "failure"
                /\ cp = {} /\ rp = {}
          /\ "init_design" \in succeeded =>
                /\ Cardinality(cp) = 1
                /\ Cardinality(rs) = env.waveforms + Len(env.reports) + env.saifs
                /\ Cardinality(rp) = 1 + Len(env.reports) + env.saifs + env.custom_reports
                /\ \A i \in rs, c \in cp : i < c
                /\ \A i \in rp, c \in cp : c < i

C28_Witness ==
    /\ tool = "Joules" /\ pc = "Done" /\ start_at = 1
    /\ env.waveforms = 1 /\ Len(env.reports) = 2 /\ env.saifs = 1 /\ env.custom_reports = 1
    /\ env.reports[1].toggle_signal
    /\ "compute_power -mode time_based" \in Range(output)


\* the metal below the k-th requested strap layer
LayerBelow(k) ==
    get_metal(IF k = 1 THEN straps.rail ELSE straps.layer_names[k - 1])

\* bottom-up, and each layer across the one below
BottomUpAndAlternating ==
    \A k \in 1..Len(straps.layer_names) :
        /\ get_metal(straps.layer_names[k]).index > LayerBelow(k).index
        /\ get_metal(straps.layer_names[k]).direction # LayerBelow(k).direction

\* C29: specify_all_power_straps_by_tracks returns commands iff every layer of
\* the list has an index above and a direction other than the layer before it
\* (the standard-cell rail layer before the first); otherwise it raises
\* AssertionError or ValueError and returns no commands.  The commands it
\* returns are the three rail commands and then one group of seven per layer,
\* in the order of the list, each with vias down to the layer before.
C29_StrapsBottomUp ==
    straps.called =>
      LET n == Len(straps.layer_names)
          c == straps.cmds
      IN  /\ (straps.err = "none") <=> BottomUpAndAlternating
          /\ straps.err # "none" =>
                straps.err \in {"AssertionError", "ValueError"} /\ c = <<>>
          /\ straps.err = "none" =>
                /\ Len(c) = 3 + 7 * n
                /\ c[1] = "# Power strap definition for layer " \o straps.rail
                           \o " (rails):\n"
                /\ \A k \in 1..n :
                      /\ c[3 + 7 * (k - 1) + 1] =
                            "# Power strap definition for layer "
                            \o straps.layer_names[k] \o ":\n"
                      /\ c[3 + 7 * (k - 1) + 3] =
                            "set_db add_stripes_stacked_via_top_layer "
                            \o straps.layer_names[k]
                      /\ c[3 + 7 * (k - 1) + 4] =
                            "set_db add_stripes_stacked_via_bottom_layer "
                            \o LayerBelow(k).name

C29_Witness ==
    /\ straps.called /\ straps.rail = "M1" /\ straps.layer_names = <<"M2", "M3", "M4">>
    /\ straps.err = "none" /\ Len(straps.cmds) = 24


\* the second argument xrun is given by each Xcelium step
XrunArgs(n) ==
    CASE n = "compile_xrun" -> "-compile -f " \o RunDir \o "/xrun_compile.arg"
      [] n = "elaborate_xrun" -> "-elaborate -f " \o RunDir \o "/xrun_elab.arg"
      [] n = "sim_xrun" -> "-R -f " \o RunDir \o "/xrun_sim.arg -input "
                           \o RunDir \o "/xrun_sim.tcl"

\* C30: an Xcelium run takes its steps in the order compile, elaborate,
\* simulate, and each step that returned True has invoked xrun exactly once,
\* with its own arguments; compile_xrun fails, with no invocation and no file
\* written, exactly when the binary is not a file or the input files fail the
\* extension check; and the last thing sim_xrun does before invoking xrun is
\* to write the TCL driver xrun_sim.tcl (when writing it raises, xrun is not
\* invoked).
C30_XceliumThreeInvocations ==
    tool = "Xcelium" =>
      /\ \A i \in 1..Len(invoked) :
            start_at + i - 1 <= 3
            /\ invoked[i] = <<"compile_xrun", "elaborate_xrun", "sim_xrun">>[start_at + i - 1]
      /\ Len(exec_calls) = Cardinality(succeeded)
      /\ \A i \in 1..Len(exec_calls) :
            /\ i <= Len(invoked)
            /\ exec_calls[i].step = invoked[i]
            /\ exec_calls[i].args = <<"<xcelium_bin>", XrunArgs(invoked[i])>>
      /\ "compile_xrun" \in Range(invoked) =>
            /\ ("compile_xrun" \notin succeeded)
                  <=> (~env.xcelium_bin_exists \/ ~env.input_files_ok)
            /\ "compile_xrun" \notin succeeded =>
                  /\ exec_calls = <<>> /\ files = <<>> /\ events = <<>>
                  /\ pc = "Failed" /\ result = "failure"
      /\ ("sim_xrun" \in Range(invoked) /\ "sim_xrun" \notin succeeded) =>
            pc = "Raised" /\ env.level = "GateLevel" /\ ~env.all_regs_exists
      /\ "sim_xrun" \in succeeded =>
            /\ Len(events) >= 2
            /\ events[Len(events)] = Event("run_executable", "<xcelium_bin>")
            /\ events[Len(events) - 1] = Event("write", RunDir \o "/xrun_sim.tcl")
            /\ \E j \in 1..Len(files) : files[j].name = RunDir \o "/xrun_sim.tcl"

C30_Witness ==
    /\ tool = "Xcelium" /\ pc = "Done" /\ start_at = 1 /\ result = "success"
    /\ Len(exec_calls) = 3 /\ invoked = <<"compile_xrun", "elaborate_xrun", "sim_xrun">>

====
